---------------------------- MODULE Spec2Model ----------------------------
(***************************************************************************)
(* Vocabulary import pipeline of voca9204/vocab.                           *)
(*                                                                         *)
(*   FileParsingService   src/src/services/fileParsingService.js           *)
(*   PDFParsingService    src/unnamed/part_003                             *)
(*   CustomVocabulary     src/unnamed/part_004 (handleUploadComplete)      *)
(*                                                                         *)
(* A JavaScript string is a sequence of one-character strings, so that     *)
(* trimming, lower-casing, splitting and the quote state machine act on    *)
(* characters.  A JavaScript object is a sequence of <<key, value>> pairs  *)
(* with distinct keys, in insertion order.  An exception is a record       *)
(* [threw |-> TRUE, message |-> ...] returned in place of the value.       *)
(***************************************************************************)
EXTENDS Integers, Sequences, FiniteSets, TLC

VARIABLES
    csvText,        \* CsvSpec: the content handed to parseCSV
    csvOut,         \* CsvSpec: what parseCSV returned (or threw)
    csvLines,       \* CsvSpec: parseCSVLine of every non-blank line
    file,           \* the uploaded file of the current invocation
    pc,             \* where the invocation is
    content,        \* what readFileContent resolved to
    parsedData,     \* the format parser's records
    normalizedData, \* validateAndNormalizeData: accepted items
    errors,         \* validateAndNormalizeData: row errors
    console,        \* what console.warn was handed
    result,         \* the object parseFile / processPDFFile returned
    calls,          \* the components the invocation has run, in order
    pageNum,        \* extractTextFromPDF: the page loop's counter
    fullText,       \* extractTextFromPDF: text gathered so far
    parseResults,   \* CustomVocabulary: the import preview's state
    showPreview,    \* CustomVocabulary: whether the preview is shown
    importRun,      \* CustomVocabulary: what handleImportToDatabase wrote
    rawRecord,      \* NormSpec: the raw record handed to normalizeRecord
    normOut,        \* NormSpec: what normalizeRecord returned or threw
    service,        \* ConcSpec: the fields of the singleton fileParsingService
    invocations,    \* ConcSpec: the locals of each call of parseFile
    now,            \* AiSpec: Date.now()
    ticks,          \* AiSpec: how often the clock has moved
    apiKey,         \* AiSpec: openaiService.apiKey
    cache,          \* AiSpec: openaiService.cache, in the Map's key order
    requests,       \* AiSpec: openaiService.rateLimit.requests
    pending,        \* AiSpec: the calls that await makeAPIRequest
    started,        \* AiSpec: history, the times of the API requests made
                    \*   within the last minute
    useOrder,       \* AiSpec: history, the cached keys by their last use
    aiOut,          \* AiSpec: the operation that completed last
    appState,       \* AppSpec: the state the reducer keeps
    dispatched      \* AppSpec: how many actions have been dispatched

vars == <<csvText, csvOut, csvLines, file, pc, content, parsedData,
          normalizedData, errors, console, result, calls, pageNum, fullText,
          parseResults, showPreview, importRun, rawRecord, normOut,
          service, invocations, now, ticks, apiKey, cache, requests,
          pending, started, useOrder, aiOut, appState, dispatched>>

csvVars == <<csvText, csvOut, csvLines>>
normVars == <<rawRecord, normOut>>
concVars == <<service, invocations>>
aiVars == <<now, ticks, apiKey, cache, requests, pending, started, useOrder,
           aiOut>>
appVars == <<appState, dispatched>>
otherVars == <<concVars, aiVars, appVars, importRun>>
pipeVars == <<file, pc, content, parsedData, normalizedData, errors, console,
              result, calls, pageNum, fullText, parseResults, showPreview,
              importRun>>

---------------------------------------------------------------------------
(* Bounds *)

MaxTextLen == 5     \* CsvSpec: characters of a delimited text
MaxLines == 3       \* Spec: lines of a csv file
MaxElems == 3       \* Spec: elements of a json array
MaxPages == 2       \* Spec: pages of a pdf document
MaxExtras == 2      \* NormSpec: optional fields of a raw record
batchSize == 2      \* Spec: the items of one batch of an import (50 in
                    \*   the source, scaled)

---------------------------------------------------------------------------
(* JavaScript strings *)

LowerChars == <<"a","b","c","d","e","f","g","h","i","j","k","l","m",
                "n","o","p","q","r","s","t","u","v","w","x","y","z">>
UpperChars == <<"A","B","C","D","E","F","G","H","I","J","K","L","M",
                "N","O","P","Q","R","S","T","U","V","W","X","Y","Z">>
DigitChars == {"0","1","2","3","4","5","6","7","8","9"}

Range(s) == {s[i] : i \in DOMAIN s}
SetMin(S) == CHOOSE x \in S : \A y \in S : x <= y
SetMax(S) == CHOOSE x \in S : \A y \in S : x >= y

Letters == Range(LowerChars) \cup Range(UpperChars)
Whitespace == {" ", "\t", "\r", "\n"}
IsWhitespace(c) == c \in Whitespace
IsLetter(c) == c \in Letters
IsDigit(c) == c \in DigitChars

toLowerCaseChar(c) ==
    IF c \in Range(UpperChars)
    THEN LowerChars[CHOOSE i \in DOMAIN UpperChars : UpperChars[i] = c]
    ELSE c

toLowerCase(s) == [i \in DOMAIN s |-> toLowerCaseChar(s[i])]

trim(s) ==
    LET keep == {i \in DOMAIN s : ~IsWhitespace(s[i])}
    IN  IF keep = {} THEN <<>> ELSE SubSeq(s, SetMin(keep), SetMax(keep))

RECURSIVE split(_, _)
split(s, sep) ==
    LET at == {i \in DOMAIN s : s[i] = sep}
    IN  IF at = {} THEN <<s>>
        ELSE <<SubSeq(s, 1, SetMin(at) - 1)>>
             \o split(SubSeq(s, SetMin(at) + 1, Len(s)), sep)

RECURSIVE join(_, _)
join(parts, sep) ==
    IF parts = <<>> THEN <<>>
    ELSE IF Len(parts) = 1 THEN parts[1]
    ELSE parts[1] \o <<sep>> \o join(Tail(parts), sep)

RECURSIVE Str(_)
Str(s) == IF s = <<>> THEN "" ELSE s[1] \o Str(Tail(s))

Threw(message) == [threw |-> TRUE, message |-> message]
Returned(value) == [threw |-> FALSE, value |-> value]

---------------------------------------------------------------------------
(* JavaScript objects and values *)

Undefined == <<"undefined">>
Null == <<"null">>
IsNullish(v) == v = Undefined \/ v = Null
Num(digits) == <<"number">> \o digits

Obj(fields) == [kind |-> "object", fields |-> fields]
JNull == [kind |-> "null"]
JNumber == [kind |-> "number"]

Keys(o) == [i \in DOMAIN o.fields |-> o.fields[i][1]]
HasKey(o, k) == \E i \in DOMAIN o.fields : o.fields[i][1] = k
Get(o, k) ==
    IF HasKey(o, k)
    THEN o.fields[CHOOSE i \in DOMAIN o.fields : o.fields[i][1] = k][2]
    ELSE Undefined
Set(o, k, v) ==
    IF HasKey(o, k)
    THEN Obj([i \in DOMAIN o.fields |->
                 IF o.fields[i][1] = k THEN <<k, v>> ELSE o.fields[i]])
    ELSE Obj(Append(o.fields, <<k, v>>))

---------------------------------------------------------------------------
(* FileParsingService: the delimited-text parser *)

stripQuotes(val) ==
    LET a == IF val # <<>> /\ Head(val) = "\"" THEN Tail(val) ELSE val
    IN  IF a # <<>> /\ a[Len(a)] = "\"" THEN SubSeq(a, 1, Len(a) - 1) ELSE a

RECURSIVE parseCSVLineFrom(_, _, _, _, _)
parseCSVLineFrom(line, i, res, current, inQuotes) ==
    IF i > Len(line)
    THEN LET all == Append(res, current)
         IN  [k \in DOMAIN all |-> stripQuotes(all[k])]
    ELSE IF line[i] = "\""
         THEN parseCSVLineFrom(line, i + 1, res, current, ~inQuotes)
    ELSE IF line[i] = "," /\ ~inQuotes
         THEN parseCSVLineFrom(line, i + 1, Append(res, current), <<>>, inQuotes)
    ELSE parseCSVLineFrom(line, i + 1, res, Append(current, line[i]), inQuotes)

\* mutant: every comma separates, quoted or not
parseCSVLine_EveryComma(line) ==
    LET all == split(line, ",")
    IN  [k \in DOMAIN all |-> SelectSeq(all[k], LAMBDA c : c # "\"")]

parseCSVLine(line) == parseCSVLineFrom(line, 1, <<>>, <<>>, FALSE)

RECURSIVE csvRecordFrom(_, _, _, _)
csvRecordFrom(headers, values, index, record) ==
    IF index > Len(headers) THEN record
    ELSE LET cleanHeader == toLowerCase(trim(headers[index]))
             value == IF index <= Len(values) /\ values[index] # <<>>
                      THEN trim(values[index]) ELSE <<>>
         IN  csvRecordFrom(headers, values, index + 1,
                           Set(record, cleanHeader, value))

csvRecord(headers, values) == csvRecordFrom(headers, values, 1, Obj(<<>>))

nonBlankLines(text) == SelectSeq(split(text, "\n"), LAMBDA l : trim(l) # <<>>)

RECURSIVE csvRowsFrom(_, _, _, _)
csvRowsFrom(lines, headers, i, data) ==
    IF i > Len(lines) THEN data
    ELSE LET values == parseCSVLine(lines[i])
         IN  csvRowsFrom(lines, headers, i + 1,
                         IF Len(values) > 0
                         THEN Append(data, csvRecord(headers, values))
                         ELSE data)

\* mutant: the header line is read as a data row too
parseCSV_HeaderAsRow(text) ==
    LET lines == nonBlankLines(text)
    IN  IF Len(lines) = 0
        THEN Threw("CSV parsing error: " \o "CSV file is empty")
        ELSE Returned(csvRowsFrom(lines, parseCSVLine(lines[1]), 1, <<>>))

\* mutant: no line at all is an empty record set, not an error
parseCSV_EmptyIsNoRows(text) ==
    LET lines == nonBlankLines(text)
    IN  IF Len(lines) = 0
        THEN Returned(<<>>)
        ELSE Returned(csvRowsFrom(lines, parseCSVLine(lines[1]), 2, <<>>))

parseCSV(text) ==
    LET lines == nonBlankLines(text)
    IN  IF Len(lines) = 0
        THEN Threw("CSV parsing error: " \o "CSV file is empty")
        ELSE Returned(csvRowsFrom(lines, parseCSVLine(lines[1]), 2, <<>>))

---------------------------------------------------------------------------
(* Field names and literals of the normalizer, as character sequences *)

s_word == <<"w","o","r","d">>
s_term == <<"t","e","r","m">>
s_vocabulary == <<"v","o","c","a","b","u","l","a","r","y">>
s_english == <<"e","n","g","l","i","s","h">>
s_definition == <<"d","e","f","i","n","i","t","i","o","n">>
s_meaning == <<"m","e","a","n","i","n","g">>
s_def == <<"d","e","f">>
s_description == <<"d","e","s","c","r","i","p","t","i","o","n">>
s_pronunciation == <<"p","r","o","n","u","n","c","i","a","t","i","o","n">>
s_phonetic == <<"p","h","o","n","e","t","i","c">>
s_sound == <<"s","o","u","n","d">>
s_partofspeech == <<"p","a","r","t","o","f","s","p","e","e","c","h">>
s_pos == <<"p","o","s">>
s_type == <<"t","y","p","e">>
s_part_of_speech == <<"p","a","r","t","_","o","f","_","s","p","e","e","c","h">>
s_korean == <<"k","o","r","e","a","n">>
s_translation == <<"t","r","a","n","s","l","a","t","i","o","n">>
s_korean_translation == <<"k","o","r","e","a","n","_","t","r","a","n","s","l","a","t","i","o","n">>
s_kor == <<"k","o","r">>
s_example == <<"e","x","a","m","p","l","e">>
s_sentence == <<"s","e","n","t","e","n","c","e">>
s_usage == <<"u","s","a","g","e">>
s_sample == <<"s","a","m","p","l","e">>
s_examples == <<"e","x","a","m","p","l","e","s">>
s_sentences == <<"s","e","n","t","e","n","c","e","s">>
s_usages == <<"u","s","a","g","e","s">>
s_difficulty == <<"d","i","f","f","i","c","u","l","t","y">>
s_level == <<"l","e","v","e","l">>
s_hard == <<"h","a","r","d">>
s_category == <<"c","a","t","e","g","o","r","y">>
s_topic == <<"t","o","p","i","c">>
s_subject == <<"s","u","b","j","e","c","t">>
s_theme == <<"t","h","e","m","e">>
s_categories == <<"c","a","t","e","g","o","r","i","e","s">>
s_topics == <<"t","o","p","i","c","s">>
s_subjects == <<"s","u","b","j","e","c","t","s">>
s_tags == <<"t","a","g","s">>
s_easy == <<"e","a","s","y">>
s_medium == <<"m","e","d","i","u","m">>
s_1 == <<"1">>
s_beginner == <<"b","e","g","i","n","n","e","r">>
s_simple == <<"s","i","m","p","l","e">>
s_basic == <<"b","a","s","i","c">>
s_2 == <<"2">>
s_intermediate == <<"i","n","t","e","r","m","e","d","i","a","t","e">>
s_normal == <<"n","o","r","m","a","l">>
s_average == <<"a","v","e","r","a","g","e">>
s_3 == <<"3">>
s_advanced == <<"a","d","v","a","n","c","e","d">>
s_difficult == <<"d","i","f","f","i","c","u","l","t">>
s_complex == <<"c","o","m","p","l","e","x">>
s_challenging == <<"c","h","a","l","l","e","n","g","i","n","g">>

---------------------------------------------------------------------------
(* FileParsingService: the field normalizer *)

ItemKeys == <<"word", "definitions", "pronunciation", "partOfSpeech",
              "koreanTranslation", "examples", "difficulty", "categories",
              "customFields">>

\* a string is its own toString(); a number prints its digits
toString(v) == IF v # <<>> /\ v[1] = "number" THEN Tail(v) ELSE v

RECURSIVE findFieldValue(_, _)
\* mutant: an alias with an empty value is passed over
findFieldValue_SkipsEmpty(record, possibleNames) ==
    IF possibleNames = <<>> THEN Null
    ELSE IF ~IsNullish(Get(record, possibleNames[1]))
            /\ toString(Get(record, possibleNames[1])) # <<>>
         THEN toString(Get(record, possibleNames[1]))
    ELSE findFieldValue(record, Tail(possibleNames))

findFieldValue(record, possibleNames) ==
    IF possibleNames = <<>> THEN Null
    ELSE IF ~IsNullish(Get(record, possibleNames[1]))
         THEN toString(Get(record, possibleNames[1]))
    ELSE findFieldValue(record, Tail(possibleNames))

Falsy(v) == v = Null \/ v = <<>>

OrEmpty(v) == IF Falsy(v) THEN <<>> ELSE v

splitTrimmed(v) ==
    LET parts == split(v, ",")
        trimmed == [i \in DOMAIN parts |-> trim(parts[i])]
    IN  SelectSeq(trimmed, LAMBDA x : x # <<>>)

pushExample(examples, value) ==
    IF ~Falsy(value) THEN Append(examples, [example |-> trim(value)])
    ELSE examples

numberedNames(n) == <<s_example \o n, s_sentence \o n, s_sample \o n>>

RECURSIVE numberedExamples(_, _, _)
numberedExamples(record, i, examples) ==
    IF i > 5 THEN examples
    ELSE numberedExamples(record, i + 1,
             pushExample(examples,
                 findFieldValue(record, numberedNames(<<ToString(i)>>))))

examplesOf(list) == [i \in DOMAIN list |-> [example |-> list[i]]]

listedExamples(examples, examplesField) ==
    IF ~Falsy(examplesField) /\ Len(examples) = 0
    THEN examplesOf(splitTrimmed(examplesField))
    ELSE examples

parseExamples(record) ==
    listedExamples(
        numberedExamples(record, 1,
            pushExample(<<>>, findFieldValue(record,
                <<s_example, s_sentence, s_usage, s_sample>>))),
        findFieldValue(record, <<s_examples, s_sentences, s_usages>>))

mapDifficulty(normalized) ==
    IF normalized \in {s_easy, s_medium, s_hard} THEN normalized
    ELSE IF normalized \in {s_1, s_beginner, s_simple, s_basic} THEN s_easy
    ELSE IF normalized \in {s_2, s_intermediate, s_normal, s_average}
         THEN s_medium
    ELSE IF normalized \in {s_3, s_advanced, s_difficult, s_complex,
                            s_challenging}
         THEN s_hard
    ELSE s_medium

\* mutant: the value is lower-cased but not trimmed
normalizeDifficulty_NoTrim(difficulty) ==
    IF Falsy(difficulty) THEN s_medium
    ELSE mapDifficulty(toLowerCase(difficulty))

normalizeDifficulty(difficulty) ==
    IF Falsy(difficulty) THEN s_medium
    ELSE mapDifficulty(trim(toLowerCase(difficulty)))

\* mutant: a later field adds to the categories an earlier one gave
pushCategories_Always(categories, value) ==
    IF ~Falsy(value) THEN categories \o splitTrimmed(value)
    ELSE categories

pushCategories(categories, value) ==
    IF ~Falsy(value) /\ Len(categories) = 0 THEN splitTrimmed(value)
    ELSE categories

parseCategories(record) ==
    pushCategories(
        pushCategories(<<>>, findFieldValue(record,
            <<s_category, s_topic, s_subject, s_theme>>)),
        findFieldValue(record, <<s_categories, s_topics, s_subjects, s_tags>>))

standardFields ==
    {s_word, s_term, s_vocabulary, s_english,
     s_definition, s_meaning, s_def, s_description,
     s_pronunciation, s_phonetic, s_sound,
     s_partofspeech, s_pos, s_type, s_part_of_speech,
     s_korean, s_translation, s_korean_translation, s_kor,
     s_example, s_sentence, s_usage, s_sample, s_examples, s_sentences,
     s_usages,
     s_difficulty, s_level, s_hard,
     s_category, s_topic, s_subject, s_theme, s_categories, s_topics,
     s_subjects, s_tags}

\* mutant: only the numbers 1 to 5 count as numbered examples
isNumberedExample_UpTo5(key) ==
    \E stem \in {s_example, s_sentence, s_sample} :
        /\ Len(key) = Len(stem) + 1
        /\ SubSeq(key, 1, Len(stem)) = stem
        /\ key[Len(key)] \in {"1", "2", "3", "4", "5"}

\* /^(example|sentence|sample)\d+$/
isNumberedExample(key) ==
    \E stem \in {s_example, s_sentence, s_sample} :
        /\ Len(key) > Len(stem)
        /\ SubSeq(key, 1, Len(stem)) = stem
        /\ \A i \in (Len(stem) + 1)..Len(key) : IsDigit(key[i])

RECURSIVE customFieldsFrom(_, _, _)
customFieldsFrom(record, i, customFields) ==
    IF i > Len(record.fields) THEN customFields
    ELSE LET key == record.fields[i][1]
             normalizedKey == trim(toLowerCase(key))
         IN  customFieldsFrom(record, i + 1,
                 IF normalizedKey \notin standardFields
                    /\ ~isNumberedExample(normalizedKey)
                 THEN Set(customFields, key, record.fields[i][2])
                 ELSE customFields)

extractCustomFields(record) == customFieldsFrom(record, 1, Obj(<<>>))

RECURSIVE lowerKeysFrom(_, _, _)
lowerKeysFrom(record, i, normalizedRecord) ==
    IF i > Len(record.fields) THEN normalizedRecord
    ELSE lowerKeysFrom(record, i + 1,
             Set(normalizedRecord, trim(toLowerCase(record.fields[i][1])),
                 record.fields[i][2]))

\* Object.keys of a non-object: null throws, a number has no keys
objectKeys(record) ==
    IF record.kind = "null"
    THEN Threw("Cannot convert undefined or null to object")
    ELSE IF record.kind = "number" THEN Returned(Obj(<<>>))
    ELSE Returned(record)

\* mutant: the word keeps its case
vocabularyItem_KeepCase(normalizedRecord, word, definition) ==
    [word |-> trim(word),
     definitions |-> <<[definition |-> trim(definition)]>>,
     pronunciation |-> <<>>, partOfSpeech |-> <<>>, koreanTranslation |-> <<>>,
     examples |-> parseExamples(normalizedRecord),
     difficulty |-> s_medium,
     categories |-> parseCategories(normalizedRecord),
     customFields |-> extractCustomFields(normalizedRecord)]

vocabularyItem(normalizedRecord, word, definition) ==
    [word |-> toLowerCase(trim(word)),
     definitions |-> <<[definition |-> trim(definition)]>>,
     pronunciation |-> OrEmpty(findFieldValue(normalizedRecord,
         <<s_pronunciation, s_phonetic, s_sound>>)),
     partOfSpeech |-> OrEmpty(findFieldValue(normalizedRecord,
         <<s_partofspeech, s_pos, s_type, s_part_of_speech>>)),
     koreanTranslation |-> OrEmpty(findFieldValue(normalizedRecord,
         <<s_korean, s_translation, s_korean_translation, s_kor>>)),
     examples |-> parseExamples(normalizedRecord),
     difficulty |-> normalizeDifficulty(findFieldValue(normalizedRecord,
         <<s_difficulty, s_level, s_hard>>)),
     categories |-> parseCategories(normalizedRecord),
     customFields |-> extractCustomFields(normalizedRecord)]

\* mutant: a definition of blanks only is let through
requireFields_BlankDefinition(normalizedRecord, word, definition) ==
    IF Falsy(word) \/ trim(word) = <<>>
    THEN Threw("Word field is required and cannot be empty")
    ELSE IF Falsy(definition)
    THEN Threw("Definition field is required and cannot be empty")
    ELSE Returned(vocabularyItem(normalizedRecord, word, definition))

requireFields(normalizedRecord, word, definition) ==
    IF Falsy(word) \/ trim(word) = <<>>
    THEN Threw("Word field is required and cannot be empty")
    ELSE IF Falsy(definition) \/ trim(definition) = <<>>
    THEN Threw("Definition field is required and cannot be empty")
    ELSE Returned(vocabularyItem(normalizedRecord, word, definition))

normalizeKeys(normalizedRecord) ==
    requireFields(normalizedRecord,
        findFieldValue(normalizedRecord,
            <<s_word, s_term, s_vocabulary, s_english>>),
        findFieldValue(normalizedRecord,
            <<s_definition, s_meaning, s_def, s_description>>))

normalizeObject(keys) ==
    IF keys.threw THEN keys
    ELSE normalizeKeys(lowerKeysFrom(keys.value, 1, Obj(<<>>)))

normalizeRecord(record, index) == normalizeObject(objectKeys(record))

RECURSIVE joinStr(_, _)
joinStr(parts, sep) ==
    IF parts = <<>> THEN ""
    ELSE IF Len(parts) = 1 THEN parts[1]
    ELSE parts[1] \o sep \o joinStr(Tail(parts), sep)

\* mutant: the item is put in front of the list
pushRow_Unshift(lists, index, r) ==
    IF r.threw
    THEN [normalizedData |-> lists.normalizedData,
          errors |-> Append(lists.errors,
                        "Row " \o ToString(index + 1) \o ": " \o r.message)]
    ELSE [normalizedData |-> <<r.value>> \o lists.normalizedData,
          errors |-> lists.errors]

\* one turn of data.forEach: the item is pushed, or the row's error is
pushRow(lists, index, r) ==
    IF r.threw
    THEN [normalizedData |-> lists.normalizedData,
          errors |-> Append(lists.errors,
                        "Row " \o ToString(index + 1) \o ": " \o r.message)]
    ELSE [normalizedData |-> Append(lists.normalizedData, r.value),
          errors |-> lists.errors]

\* mutant: the batch ends with its first row
forEachRecord_FirstRowOnly(data, index, lists) ==
    pushRow(lists, index, normalizeRecord(data[index + 1], index))

RECURSIVE forEachRecord(_, _, _)
forEachRecord(data, index, lists) ==
    IF index >= Len(data) THEN lists
    ELSE forEachRecord(data, index + 1,
             pushRow(lists, index, normalizeRecord(data[index + 1], index)))

\* mutant: rows that all failed are an empty success
validated_NeverThrows(lists) ==
    [threw |-> FALSE, value |-> lists.normalizedData,
     normalizedData |-> lists.normalizedData,
     errors |-> lists.errors,
     warned |-> IF Len(lists.errors) > 0 THEN <<lists.errors>> ELSE <<>>]

\* after the loop: what the call returns or throws, with the two lists it
\* built and what it handed to console.warn
validated(lists) ==
    IF Len(lists.errors) > 0 /\ Len(lists.normalizedData) = 0
    THEN [threw |-> TRUE,
          message |-> "Data validation failed:\n" \o joinStr(lists.errors, "\n"),
          normalizedData |-> lists.normalizedData,
          errors |-> lists.errors, warned |-> <<>>]
    ELSE [threw |-> FALSE, value |-> lists.normalizedData,
          normalizedData |-> lists.normalizedData,
          errors |-> lists.errors,
          warned |-> IF Len(lists.errors) > 0 THEN <<lists.errors>> ELSE <<>>]

validateAndNormalizeData(data) ==
    IF Len(data) = 0
    THEN [threw |-> TRUE, message |-> "No data found in file",
          normalizedData |-> <<>>, errors |-> <<>>, warned |-> <<>>]
    ELSE validated(forEachRecord(data, 0,
                       [normalizedData |-> <<>>, errors |-> <<>>]))

RECURSIVE addAll(_, _)
addAll(allKeys, keys) ==
    IF keys = <<>> THEN allKeys
    ELSE addAll(IF keys[1] \in Range(allKeys) THEN allKeys
                ELSE Append(allKeys, keys[1]), Tail(keys))

RECURSIVE detectedFrom(_, _, _)
detectedFrom(data, i, allKeys) ==
    IF i > Len(data) THEN allKeys
    ELSE detectedFrom(data, i + 1, addAll(allKeys, ItemKeys))

getDetectedColumns(data) ==
    IF Len(data) = 0 THEN <<>> ELSE detectedFrom(data, 1, <<>>)

slice(s, from, to) == SubSeq(s, from + 1, IF to < Len(s) THEN to ELSE Len(s))

\* "name.ext".split('.').pop().toLowerCase()
getFileExtension(filename) ==
    LET parts == split(filename, ".")
    IN  toLowerCase(parts[Len(parts)])

s_csv == <<"c","s","v">>
s_json == <<"j","s","o","n">>
s_xlsx == <<"x","l","s","x">>
s_xls == <<"x","l","s">>
s_pdf == <<"p","d","f">>

supportedFormats == {s_csv, s_json, s_xlsx, s_xls}

isValidFormat(filename) == getFileExtension(filename) \in supportedFormats

\* mutant: a single decoded value is taken as a one-element array
parseJSON_WrapsValue(doc) ==
    IF doc.kind = "malformed"
    THEN Threw("JSON parsing error: " \o "Unexpected token")
    ELSE IF doc.kind # "array"
    THEN Returned(<<Obj(<<>>)>>)
    ELSE Returned(doc.elems)

\* JSON.parse is the platform's decoder: a json document is given by what
\* it decodes to, or by being malformed
parseJSON(doc) ==
    IF doc.kind = "malformed"
    THEN Threw("JSON parsing error: " \o "Unexpected token")
    ELSE IF doc.kind # "array"
    THEN Threw("JSON parsing error: "
               \o "JSON must contain an array of vocabulary items")
    ELSE Returned(doc.elems)

parseExcel(data) ==
    Threw("Excel parsing error: " \o "Excel files are not fully supported yet. "
          \o "Please convert to CSV format and try again.")


---------------------------------------------------------------------------
(* PDFParsingService: the plain-text parser *)

p_adjective == <<"a","d","j","e","c","t","i","v","e">>
p_adj == <<"a","d","j",".">>
p_verb == <<"v","e","r","b">>
p_v == <<"v",".">>
p_noun == <<"n","o","u","n">>
p_n == <<"n",".">>
p_adverb == <<"a","d","v","e","r","b">>
p_adv == <<"a","d","v",".">>
p_to == <<"t","o"," ">>
p_a_person_who == <<"a"," ","p","e","r","s","o","n"," ","w","h","o">>
p_someone_who == <<"s","o","m","e","o","n","e"," ","w","h","o">>
p_something_that == <<"s","o","m","e","t","h","i","n","g"," ","t","h","a","t">>
p_having == <<"h","a","v","i","n","g">>
p_characterized_by == <<"c","h","a","r","a","c","t","e","r","i","z","e","d"," ","b","y">>
p_able_to == <<"a","b","l","e"," ","t","o">>
p_in_a == <<"i","n"," ","a">>
p_manner == <<"m","a","n","n","e","r">>
s_imported == <<"i","m","p","o","r","t","e","d">>

\* the three dash characters of [-–—]
DashChars == {"-", "en-dash", "em-dash"}

includes(s, sub) ==
    \E i \in 1..(Len(s) - Len(sub) + 1) : SubSeq(s, i, i + Len(sub) - 1) = sub

startsWith(s, sub) == Len(s) >= Len(sub) /\ SubSeq(s, 1, Len(sub)) = sub

guessPartOfSpeech(definition) ==
    LET def == toLowerCase(definition)
    IN  IF includes(def, p_adjective) \/ includes(def, p_adj) THEN p_adjective
        ELSE IF includes(def, p_verb) \/ includes(def, p_v) THEN p_verb
        ELSE IF includes(def, p_noun) \/ includes(def, p_n) THEN p_noun
        ELSE IF includes(def, p_adverb) \/ includes(def, p_adv) THEN p_adverb
        ELSE IF startsWith(def, p_to) THEN p_verb
        ELSE IF includes(def, p_a_person_who) \/ includes(def, p_someone_who)
                \/ includes(def, p_something_that) THEN p_noun
        ELSE IF includes(def, p_having) \/ includes(def, p_characterized_by)
                \/ includes(def, p_able_to) THEN p_adjective
        ELSE IF includes(def, p_in_a) /\ includes(def, p_manner) THEN p_adverb
        ELSE <<>>

guessDifficulty(word, definition) ==
    IF Len(word) <= 4 THEN s_easy
    ELSE IF Len(word) <= 7 THEN s_medium
    ELSE s_hard

\* the first position from i on that holds no character of the class
skipWhile(line, i, class) ==
    LET stop == {j \in i..Len(line) : line[j] \notin class}
    IN  IF stop = {} THEN (IF i > Len(line) THEN i ELSE Len(line) + 1)
        ELSE SetMin(stop)

NoMatch == [matched |-> FALSE]
Match(word, definition) ==
    [matched |-> TRUE, word |-> word, definition |-> definition]

\* "." matches no line terminator
dotAll(s) == \A i \in DOMAIN s : s[i] \notin {"\n", "\r"}

\* ([a-zA-Z]+)\s*[seps]\s*(.+)$ from position from
matchSeparated(line, from, seps) ==
    LET wordEnd == skipWhile(line, from, Letters)
        sepAt == skipWhile(line, wordEnd, Whitespace)
        restAt == skipWhile(line, sepAt + 1, Whitespace)
        rest == IF restAt <= Len(line) THEN SubSeq(line, restAt, Len(line))
                ELSE SubSeq(line, Len(line), Len(line))
    IN  IF /\ wordEnd > from
           /\ sepAt <= Len(line) /\ line[sepAt] \in seps
           /\ sepAt < Len(line)
           /\ dotAll(rest)
        THEN Match(SubSeq(line, from, wordEnd - 1), rest)
        ELSE NoMatch

\* \s+(.{10,})$ from position from, after the word
matchLongRest(line, word, from) ==
    LET restAt == skipWhile(line, from, Whitespace)
        least == Len(line) - 9
        groupAt == IF restAt <= least THEN restAt ELSE least
        rest == SubSeq(line, groupAt, Len(line))
    IN  IF restAt > from /\ groupAt > from /\ dotAll(rest)
        THEN Match(word, rest)
        ELSE NoMatch

\* ^([a-zA-Z]+)\s*\(([^)]+)\)$
matchParenthesized(line) ==
    LET wordEnd == skipWhile(line, 1, Letters)
        openAt == skipWhile(line, wordEnd, Whitespace)
        inner == SubSeq(line, openAt + 1, Len(line) - 1)
    IN  IF /\ wordEnd > 1
           /\ openAt < Len(line) /\ line[openAt] = "("
           /\ line[Len(line)] = ")"
           /\ inner # <<>> /\ ")" \notin Range(inner)
        THEN Match(SubSeq(line, 1, wordEnd - 1), inner)
        ELSE NoMatch

\* the eight patterns of parseVocabularyFromText, in order
matchPattern(line, n) ==
    LET wordEnd == skipWhile(line, 1, Letters)
        word == SubSeq(line, 1, wordEnd - 1)
        digitsEnd == skipWhile(line, 1, DigitChars)
    IN  CASE n = 1 -> matchSeparated(line, 1, DashChars)
          [] n = 2 -> matchSeparated(line, 1, {":"})
          [] n = 3 -> matchParenthesized(line)
          [] n = 4 -> IF wordEnd > 1 THEN matchLongRest(line, word, wordEnd)
                      ELSE NoMatch
          [] n = 5 -> matchSeparated(line, 1, DashChars)
          [] n = 6 -> matchSeparated(line, 1, {"|"})
          [] n = 7 -> IF digitsEnd > 1 /\ digitsEnd <= Len(line)
                         /\ line[digitsEnd] = "."
                      THEN matchSeparated(line,
                               skipWhile(line, digitsEnd + 1, Whitespace),
                               DashChars)
                      ELSE NoMatch
          [] n = 8 -> IF wordEnd > 1 /\ wordEnd <= Len(line)
                         /\ line[wordEnd] = "."
                      THEN matchLongRest(line, word, wordEnd + 1)
                      ELSE NoMatch

pdfItem(word, definition) ==
    [word |-> word,
     definitions |-> <<[definition |-> definition]>>,
     partOfSpeech |-> guessPartOfSpeech(definition),
     difficulty |-> guessDifficulty(word, definition),
     source |-> "pdf_extraction",
     examples |-> <<>>,
     pronunciation |-> <<>>,
     koreanTranslation |-> <<>>,
     categories |-> <<s_imported>>]

\* a match passes the checks on its word and definition, or it does not
checkedItem(matched, word, definition) ==
    IF /\ matched
       /\ Len(word) >= 2 /\ Len(word) <= 30
       /\ Len(definition) >= 5 /\ Len(definition) <= 500
       /\ \A i \in DOMAIN word : IsLetter(word[i])
    THEN <<pdfItem(word, definition)>>
    ELSE <<>>

matchedItem(m) ==
    IF m.matched
    THEN checkedItem(TRUE, trim(toLowerCase(m.word)), trim(m.definition))
    ELSE <<>>

\* mutant: the patterns after the first that fits are tried as well
firstItem_NoBreak(item, others) == item \o others

firstItem(item, others) == IF item # <<>> THEN item ELSE others

\* the items the patterns from n on give for one trimmed line: none or one
RECURSIVE lineItems(_, _)
lineItems(trimmedLine, n) ==
    IF n > 8 THEN <<>>
    ELSE firstItem(matchedItem(matchPattern(trimmedLine, n)),
                   lineItems(trimmedLine, n + 1))

lineVocabulary(trimmedLine) ==
    IF Len(trimmedLine) < 5 THEN <<>> ELSE lineItems(trimmedLine, 1)

RECURSIVE vocabularyFrom(_, _, _)
vocabularyFrom(lines, i, vocabularyList) ==
    IF i > Len(lines) THEN vocabularyList
    ELSE vocabularyFrom(lines, i + 1,
             vocabularyList \o lineVocabulary(trim(lines[i])))

\* mutant: a text without any pair gives one item to be reviewed
parseVocabularyFromText_Fallback(text) ==
    IF vocabularyFrom(nonBlankLines(text), 1, <<>>) = <<>>
    THEN <<pdfItem(<<"t","e","x","t">>, trim(text))>>
    ELSE vocabularyFrom(nonBlankLines(text), 1, <<>>)

parseVocabularyFromText(text) == vocabularyFrom(nonBlankLines(text), 1, <<>>)

maxSize == 104857600

\* mutant: the MIME type is not looked at
validatePDFFile_AnyType(f) ==
    /\ getFileExtension(f.name) = s_pdf
    /\ f.size <= maxSize

validatePDFFile(f) ==
    /\ f.type = "application/pdf"
    /\ getFileExtension(f.name) = s_pdf
    /\ f.size <= maxSize

\* pdf.js is the platform's document reader: a pdf document is given by
\* whether it loads and, per page, by its text runs or its failure
pageText(page) == join(page.items, " ")

extractionError(kind) ==
    IF kind = "InvalidPDFException"
    THEN "The file appears to be corrupted or not a valid PDF."
    ELSE IF kind = "PasswordException"
    THEN "This PDF is password protected. Please provide an unprotected file."
    ELSE "Failed to extract text from PDF."


---------------------------------------------------------------------------
(* CsvSpec: parseCSV and parseCSVLine on every short text *)

CsvAlphabet == {"a", "B", ",", "\"", " ", "\n"}

RECURSIVE Texts(_, _)
Texts(alphabet, n) ==
    IF n = 0 THEN {<<>>}
    ELSE LET shorter == Texts(alphabet, n - 1)
         IN  shorter \cup {Append(t, c) : t \in shorter, c \in alphabet}

NotRun == [threw |-> FALSE, pending |-> TRUE]

PipeIdle ==
    /\ file = [name |-> <<>>]
    /\ pc = "Idle"
    /\ content = <<>>
    /\ parsedData = <<>>
    /\ normalizedData = <<>>
    /\ errors = <<>>
    /\ console = <<>>
    /\ result = [pending |-> TRUE]
    /\ calls = <<>>
    /\ pageNum = 0
    /\ fullText = <<>>
    /\ parseResults = [pending |-> TRUE]
    /\ showPreview = FALSE
    /\ importRun = [status |-> "none"]

NormIdle ==
    /\ rawRecord = [kind |-> "null"]
    /\ normOut = NotRun

ConcIdle ==
    /\ service = <<>>
    /\ invocations = <<>>

AiIdle ==
    /\ now = 0
    /\ ticks = 0
    /\ apiKey = <<>>
    /\ cache = <<>>
    /\ requests = <<>>
    /\ pending = <<>>
    /\ started = <<>>
    /\ useOrder = <<>>
    /\ aiOut = [op |-> "none"]

\* the part of initialState the reducer's word marks read and write
initialState ==
    [vocabulary |-> [knownWords |-> <<"eloquent", "gregarious">>,
                     unknownWords |-> <<"ubiquitous">>],
     learning |-> [totalWordsLearned |-> 150, todayProgress |-> 3]]

AppIdle ==
    /\ appState = initialState
    /\ dispatched = 0

OthersIdle == ConcIdle /\ AiIdle /\ AppIdle

t_smith == <<"\"","S","m","i","t","h",","," ","J","o","h","n","\"",",","4","2">>

CsvInit ==
    /\ csvText \in Texts(CsvAlphabet, MaxTextLen) \cup {t_smith}
    /\ csvOut = NotRun
    /\ csvLines = <<>>
    /\ PipeIdle
    /\ NormIdle
    /\ OthersIdle

parsedLines(lines) ==
    [i \in DOMAIN lines |-> [line |-> lines[i], fields |-> parseCSVLine(lines[i])]]

RunParseCSV ==
    /\ csvOut = NotRun
    /\ csvOut' = parseCSV(csvText)
    /\ csvLines' = parsedLines(nonBlankLines(csvText))
    /\ UNCHANGED csvText
    /\ UNCHANGED <<pipeVars, normVars, otherVars>>

CsvNext == RunParseCSV

CsvSpec == CsvInit /\ [][CsvNext]_vars

---------------------------------------------------------------------------
(* The files uploaded *)

RECURSIVE SeqsUpTo(_, _)
SeqsUpTo(S, n) ==
    IF n = 0 THEN {<<>>}
    ELSE LET shorter == SeqsUpTo(S, n - 1)
         IN  shorter \cup {Append(q, x) : q \in shorter, x \in S}

l_header == <<"w","o","r","d",",","d","e","f">>
l_aliases == <<" ","T","e","r","m"," ",",","D","E","F">>
l_valid == <<"A","b",","," ","x"," ","y">>
l_nodef == <<"f">>
l_noword == <<" ",",","g">>
l_blank == <<" ">>

CsvFileLines == {l_header, l_aliases, l_valid, l_nodef, l_noword, l_blank}

CsvContents == {join(ls, "\n") : ls \in SeqsUpTo(CsvFileLines, MaxLines)}

k_Word == <<"W","o","r","d">>
k_region == <<"r","e","g","i","o","n">>
v_Ab == <<"A","b">>
v_x == <<" ","X"," ","y"," ">>
v_c == <<"c">>
v_US == <<"U","S">>

JsonElems ==
    { Obj(<< <<s_word, v_Ab>>, <<s_def, v_x>> >>),
      Obj(<< <<k_Word, Null>>, <<s_term, v_c>>, <<s_meaning, Num(<<"4", "2">>)>>,
             <<k_region, v_US>> >>),
      Obj(<< <<s_word, v_c>> >>),
      Obj(<< <<s_word, <<" ">> >>, <<s_def, v_x>> >>),
      Obj(<< <<s_word, v_c>>, <<s_def, <<" ">> >> >>),
      JNull,
      JNumber }

JsonDocs ==
    {[kind |-> k] : k \in {"malformed", "null", "number", "string", "object"}}
    \cup {[kind |-> "array", elems |-> e] : e \in SeqsUpTo(JsonElems, MaxElems)}

Page(items) == [fails |-> FALSE, items |-> items]
FailingPage == [fails |-> TRUE, items |-> <<>>]

t_ab == <<"a","b">>
t_dash == <<"-">>
t_a_fruit == <<"a"," ","f","r","u","i","t">>
t_cat == <<"C","a","t",":"," ","f","e","l","i","n","e">>
t_short == <<"a","b"," ","-"," ","x">>
t_oneletter == <<"x"," ","-"," ","y","z","y","z","y">>
t_prose == <<"z","z","z","z","z","z","z","z","z","z","z","z">>

t_apple == <<"a","p","p","l","e"," ","-"," ","a"," ","f","r","u","i","t">>
t_banana == <<"b","a","n","a","n","a"," ","-"," ","a"," ","f","r","u","i","t">>
t_long == <<"a","b"," ","-"," ","a"," ","l","o","n","g","e","r"," ","f","r","u","i","t">>

PdfPages ==
    { Page(<<t_ab, t_dash, t_a_fruit>>), Page(<<t_cat>>), Page(<<t_short>>),
      Page(<<t_oneletter>>), Page(<<t_prose>>), Page(<<>>), FailingPage,
      Page(<<t_apple>>), Page(<<t_banana>>), Page(<<t_long>>) }

\* a document of six pages, a word and a definition on each
SixPages ==
    <<Page(<<t_ab, t_dash, t_a_fruit>>), Page(<<t_cat>>), Page(<<t_apple>>),
      Page(<<t_banana>>), Page(<<t_long>>), Page(<<t_apple>>)>>

PdfDocs ==
    {[kind |-> "pdf", load |-> "ok", pages |-> ps] :
        ps \in SeqsUpTo(PdfPages, MaxPages)}
    \cup {[kind |-> "pdf", load |-> k, pages |-> <<>>] :
        k \in {"InvalidPDFException", "PasswordException", "other"}}

n_csv == <<"a",".","c","s","v">>
n_CSV == <<"b",".","c",".","C","S","V">>
n_json == <<"a",".","j","s","o","n">>
n_xlsx == <<"a",".","x","l","s","x">>
n_xls == <<"a",".","x","l","s">>
n_pdf == <<"a",".","p","d","f">>
n_PDF == <<"a",".","P","D","F">>
n_txt == <<"a",".","t","x","t">>
n_none == <<"n","o","t","e","s">>

FileNames == {n_csv, n_CSV, n_json, n_xlsx, n_xls, n_pdf, n_PDF, n_txt, n_none}

Text(text) == [kind |-> "text", text |-> text]
Json(doc) == [kind |-> "json", doc |-> doc]

File(name, type, size, readable, body) ==
    [name |-> name, type |-> type, size |-> size, readable |-> readable,
     body |-> body]

Files ==
    {File(n_csv, "text/csv", 10, TRUE, Text(c)) : c \in CsvContents}
    \cup {File(n_CSV, "text/csv", 10, TRUE, Text(c)) :
             c \in {join(ls, "\n") : ls \in SeqsUpTo(CsvFileLines, 2)}}
    \cup {File(n_json, "application/json", 10, TRUE, Json(d)) : d \in JsonDocs}
    \cup {File(n, "", 10, TRUE, Text(<<>>)) : n \in {n_xlsx, n_xls, n_txt, n_none}}
    \cup {File(n_pdf, "application/pdf", 10, TRUE, d) : d \in PdfDocs}
    \cup {File(n, t, s, TRUE, [kind |-> "pdf", load |-> "ok",
                               pages |-> <<Page(<<t_ab, t_dash, t_a_fruit>>)>>]) :
             n \in {n_pdf, n_PDF}, t \in {"application/pdf", ""},
             s \in {10, maxSize + 1}}
    \cup {File(n, "", 10, FALSE, Text(<<>>)) : n \in FileNames}
    \cup {File(n_pdf, "application/pdf", 10, FALSE,
                [kind |-> "pdf", load |-> "ok", pages |-> <<>>])}

---------------------------------------------------------------------------
(* The import: handleUploadComplete, parseFile, processPDFFile *)

\* mutant: the failure carries an empty partial result
Failure_WithPartial(message, f) ==
    [success |-> FALSE, error |-> message, fileName |-> f.name,
     data |-> <<>>, recordCount |-> 0]

Failure(message, f) ==
    [success |-> FALSE, error |-> message, fileName |-> f.name]

PdfFailure(message, f) ==
    [success |-> FALSE, error |-> message, fileName |-> f.name,
     parseMethod |-> "pdf_text_extraction"]

Init ==
    /\ csvText = <<>>
    /\ csvOut = NotRun
    /\ csvLines = <<>>
    /\ PipeIdle
    /\ NormIdle
    /\ OthersIdle

\* handleUploadComplete up to its await: the extension decides between
\* processPDFFile (which validates the file first) and parseFile
HandleUploadComplete(f) ==
    /\ pc = "Idle"
    /\ file' = f
    /\ IF getFileExtension(f.name) = s_pdf
       THEN IF ~validatePDFFile(f)
            THEN /\ pc' = "Failed"
                 /\ result' = PdfFailure("Invalid PDF file. Please ensure the "
                                  \o "file is a valid PDF.", f)
                 /\ calls' = <<"processPDFFile">>
            ELSE /\ pc' = "Loading"
                 /\ calls' = <<"processPDFFile", "extractTextFromPDF">>
                 /\ UNCHANGED result
       ELSE /\ pc' = "Reading"
            /\ calls' = <<"parseFile", "readFileContent">>
            /\ UNCHANGED result
    /\ UNCHANGED <<content, parsedData, normalizedData, errors, console,
                   pageNum, fullText, parseResults, showPreview>>
    /\ UNCHANGED <<csvVars, normVars, otherVars>>

\* readFileContent settles: reader.onload or reader.onerror
ReadFileContent ==
    /\ pc = "Reading"
    /\ IF file.readable
       THEN /\ content' = file.body
            /\ pc' = "Parsing"
            /\ UNCHANGED result
       ELSE /\ result' = Failure("Failed to read file", file)
            /\ pc' = "Failed"
            /\ UNCHANGED content
    /\ UNCHANGED <<file, parsedData, normalizedData, errors, console, calls,
                   pageNum, fullText, parseResults, showPreview>>
    /\ UNCHANGED <<csvVars, normVars, otherVars>>

\* mutant: a file of any other extension is read as delimited text
parserFor_DefaultCSV(fileExtension) ==
    IF fileExtension = s_json THEN "parseJSON"
    ELSE IF fileExtension \in {s_xlsx, s_xls} THEN "parseExcel"
    ELSE "parseCSV"

\* the switch of parseFile: the parser of an extension, if it has one
parserFor(fileExtension) ==
    IF fileExtension = s_csv THEN "parseCSV"
    ELSE IF fileExtension = s_json THEN "parseJSON"
    ELSE IF fileExtension \in {s_xlsx, s_xls} THEN "parseExcel"
    ELSE "default"

\* mutant: the records are normalized whatever the parser's outcome was
Parsed_ErrorIgnored(parser, outcome) ==
    /\ calls' = Append(calls, parser)
    /\ parsedData' = IF outcome.threw THEN <<>> ELSE outcome.value
    /\ pc' = "Normalizing"
    /\ UNCHANGED result
    /\ UNCHANGED <<file, content, normalizedData, errors, console, pageNum,
                   fullText, parseResults, showPreview>>
    /\ UNCHANGED <<csvVars, normVars, otherVars>>

\* one case of the switch each, with the parser's outcome
Parsed(parser, outcome) ==
    /\ calls' = Append(calls, parser)
    /\ IF outcome.threw
       THEN /\ result' = Failure(outcome.message, file)
            /\ pc' = "Failed"
            /\ UNCHANGED parsedData
       ELSE /\ parsedData' = outcome.value
            /\ pc' = "Normalizing"
            /\ UNCHANGED result
    /\ UNCHANGED <<file, content, normalizedData, errors, console, pageNum,
                   fullText, parseResults, showPreview>>
    /\ UNCHANGED <<csvVars, normVars, otherVars>>

ParseCSVFile ==
    /\ pc = "Parsing"
    /\ parserFor(getFileExtension(file.name)) = "parseCSV"
    /\ Parsed("parseCSV", parseCSV(content.text))

ParseJSONFile ==
    /\ pc = "Parsing"
    /\ parserFor(getFileExtension(file.name)) = "parseJSON"
    /\ Parsed("parseJSON", parseJSON(content.doc))

ParseExcelFile ==
    /\ pc = "Parsing"
    /\ parserFor(getFileExtension(file.name)) = "parseExcel"
    /\ Parsed("parseExcel", parseExcel(content))

UnsupportedFormat ==
    /\ pc = "Parsing"
    /\ parserFor(getFileExtension(file.name)) = "default"
    /\ result' = Failure("Unsupported file format: "
                         \o Str(getFileExtension(file.name)), file)
    /\ pc' = "Failed"
    /\ UNCHANGED <<file, content, parsedData, normalizedData, errors, console,
                   calls, pageNum, fullText, parseResults, showPreview>>
    /\ UNCHANGED <<csvVars, normVars, otherVars>>

\* validateAndNormalizeData and the result parseFile returns
Normalized(v) ==
    /\ normalizedData' = v.normalizedData
    /\ errors' = v.errors
    /\ console' = console \o v.warned
    /\ calls' = Append(calls, "validateAndNormalizeData")
    /\ IF v.threw
       THEN /\ result' = Failure(v.message, file)
            /\ pc' = "Failed"
       ELSE /\ result' =
                 [success |-> TRUE,
                  data |-> v.value,
                  fileName |-> file.name,
                  fileType |-> getFileExtension(file.name),
                  recordCount |-> Len(v.value),
                  detectedColumns |-> getDetectedColumns(v.value),
                  sampleData |-> slice(v.value, 0, 5)]
            /\ pc' = "Succeeded"
    /\ UNCHANGED <<file, content, parsedData, pageNum, fullText, parseResults,
                   showPreview>>
    /\ UNCHANGED <<csvVars, normVars, otherVars>>

Normalize ==
    /\ pc = "Normalizing"
    /\ Normalized(validateAndNormalizeData(parsedData))

\* file.arrayBuffer() and getDocument(): "ok", or what was thrown
loadOutcome(f) == IF ~f.readable THEN "unreadable" ELSE f.body.load

\* extractTextFromPDF: the document is read and loaded, or the load throws
LoadPDF ==
    /\ pc = "Loading"
    /\ IF loadOutcome(file) = "ok"
       THEN /\ pageNum' = 1
            /\ fullText' = <<>>
            /\ pc' = "Extracting"
            /\ UNCHANGED result
       ELSE /\ result' = PdfFailure(extractionError(loadOutcome(file)), file)
            /\ pc' = "Failed"
            /\ UNCHANGED <<pageNum, fullText>>
    /\ UNCHANGED <<file, content, parsedData, normalizedData, errors, console,
                   calls, parseResults, showPreview>>
    /\ UNCHANGED <<csvVars, normVars, otherVars>>

\* mutant: a page that fails ends the extraction
ExtractPage_PageErrorFatal ==
    /\ pc = "Extracting"
    /\ pageNum <= Len(file.body.pages)
    /\ IF file.body.pages[pageNum].fails
       THEN /\ result' = PdfFailure("Failed to extract text from PDF.", file)
            /\ pc' = "Failed"
            /\ UNCHANGED <<fullText, pageNum>>
       ELSE /\ fullText' = fullText \o pageText(file.body.pages[pageNum])
                             \o <<"\n">>
            /\ pageNum' = pageNum + 1
            /\ UNCHANGED <<pc, result>>
    /\ UNCHANGED <<file, content, parsedData, normalizedData, errors,
                   console, calls, parseResults, showPreview>>
    /\ UNCHANGED <<csvVars, normVars, otherVars>>

\* one turn of the page loop; a page that fails is skipped
ExtractPage ==
    /\ pc = "Extracting"
    /\ pageNum <= Len(file.body.pages)
    /\ fullText' = IF file.body.pages[pageNum].fails THEN fullText
                   ELSE fullText \o pageText(file.body.pages[pageNum]) \o <<"\n">>
    /\ pageNum' = pageNum + 1
    /\ UNCHANGED <<file, pc, content, parsedData, normalizedData, errors,
                   console, result, calls, parseResults, showPreview>>
    /\ UNCHANGED <<csvVars, normVars, otherVars>>

\* the loop ends: processPDFFile checks the text, parses it and returns
PdfParsed(vocabularyList) ==
    /\ calls' = Append(calls, "parseVocabularyFromText")
    /\ console' = IF Len(vocabularyList) = 0
                  THEN Append(console,
                           "No vocabulary patterns found in PDF text")
                  ELSE console
    /\ result' =
         [success |-> TRUE,
          fileName |-> file.name,
          extractedText |-> slice(fullText, 0, 1000),
          fullTextLength |-> Len(fullText),
          vocabularyCount |-> Len(vocabularyList),
          vocabularyList |-> vocabularyList,
          detectedColumns |-> <<"word", "definitions", "partOfSpeech",
                                "difficulty">>,
          sampleWords |-> slice(vocabularyList, 0, 5),
          parseMethod |-> "pdf_text_extraction",
          warnings |-> IF Len(vocabularyList) = 0
                       THEN <<"No vocabulary patterns detected. Please ensure "
                              \o "the PDF contains word-definition pairs.">>
                       ELSE <<>>]
    /\ pc' = "Succeeded"

FinishPDF ==
    /\ pc = "Extracting"
    /\ pageNum > Len(file.body.pages)
    /\ content' = Text(fullText)
    /\ IF Len(trim(fullText)) < 10
       THEN /\ result' = PdfFailure("No readable text found in PDF. The file "
                             \o "might be image-only or corrupted.", file)
            /\ pc' = "Failed"
            /\ UNCHANGED <<calls, console>>
       ELSE PdfParsed(parseVocabularyFromText(fullText))
    /\ UNCHANGED <<file, parsedData, normalizedData, errors, pageNum, fullText,
                   parseResults, showPreview>>
    /\ UNCHANGED <<csvVars, normVars, otherVars>>

\* handleUploadComplete after its await: the preview, or handleUploadError
isPdfUpload == getFileExtension(file.name) = s_pdf

ShowResult ==
    /\ pc \in {"Succeeded", "Failed"}
    /\ IF result.success
       THEN /\ parseResults' =
                 IF isPdfUpload
                 THEN [fileName |-> result.fileName,
                       totalWords |-> result.vocabularyCount,
                       sampleWords |->
                           [i \in DOMAIN result.sampleWords |->
                               [word |-> result.sampleWords[i].word,
                                definition |-> Undefined]],
                       detectedColumns |-> result.detectedColumns,
                       status |-> "ready_for_import",
                       fileType |-> s_pdf,
                       extractedText |-> result.extractedText,
                       originalFile |-> file,
                       parsedData |-> result.sampleWords]
                 ELSE [fileName |-> result.fileName,
                       totalWords |-> result.recordCount,
                       sampleWords |->
                           [i \in DOMAIN result.sampleData |->
                               [word |-> result.sampleData[i].word,
                                definition |->
                                  result.sampleData[i].definitions[1].definition]],
                       detectedColumns |-> result.detectedColumns,
                       status |-> "ready_for_import",
                       fileType |-> result.fileType,
                       originalFile |-> file,
                       parsedData |-> result.data]
            /\ showPreview' = TRUE
            /\ pc' = "Preview"
       ELSE /\ pc' = "Rejected"
            /\ UNCHANGED <<parseResults, showPreview>>
    /\ UNCHANGED <<file, content, parsedData, normalizedData, errors, console,
                   result, calls, pageNum, fullText>>
    /\ UNCHANGED <<csvVars, normVars, otherVars>>

\* the batches of the loop of handleImportToDatabase
batchCount(vocabularies) == (Len(vocabularies) + batchSize - 1) \div batchSize

batchOf(vocabularies, i) ==
    slice(vocabularies, i * batchSize,
          IF i * batchSize + batchSize < Len(vocabularies)
          THEN i * batchSize + batchSize ELSE Len(vocabularies))

batchesOf(vocabularies) ==
    [i \in 1..batchCount(vocabularies) |-> batchOf(vocabularies, i - 1)]

\* handleImportToDatabase: without parseResults or a signed-in user it
\* returns; createCollection or a call of addVocabulariesBatch may reject,
\* which ends the loop in the catch block
HandleImportToDatabase(uid, api) ==
    /\ pc = "Preview"
    /\ importRun.status = "none"
    /\ importRun' =
         IF uid = Null THEN importRun
         ELSE IF api = "createCollection rejects"
         THEN [status |-> "failed", batches |-> <<>>]
         ELSE IF api = "addVocabulariesBatch rejects"
                 /\ batchCount(parseResults.parsedData) > 0
         THEN [status |-> "failed",
               batches |-> SubSeq(batchesOf(parseResults.parsedData), 1,
                                  batchCount(parseResults.parsedData) - 1)]
         ELSE [status |-> "imported",
               batches |-> batchesOf(parseResults.parsedData)]
    /\ UNCHANGED <<file, pc, content, parsedData, normalizedData, errors,
                   console, result, calls, pageNum, fullText, parseResults,
                   showPreview>>
    /\ UNCHANGED <<csvVars, normVars, concVars, aiVars, appVars>>

\* the page is left and entered again: a fresh component (after an import
\* the timer of handleImportToDatabase clears the preview as well)
Reset ==
    /\ pc \in {"Preview", "Rejected"}
    /\ file' = [name |-> <<>>]
    /\ pc' = "Idle"
    /\ content' = <<>>
    /\ parsedData' = <<>>
    /\ normalizedData' = <<>>
    /\ errors' = <<>>
    /\ console' = <<>>
    /\ result' = [pending |-> TRUE]
    /\ calls' = <<>>
    /\ pageNum' = 0
    /\ fullText' = <<>>
    /\ parseResults' = [pending |-> TRUE]
    /\ showPreview' = FALSE
    /\ importRun' = [status |-> "none"]
    /\ UNCHANGED <<csvVars, normVars, concVars, aiVars, appVars>>

Next ==
    \/ \E f \in Files : HandleUploadComplete(f)
    \/ ReadFileContent
    \/ ParseCSVFile
    \/ ParseJSONFile
    \/ ParseExcelFile
    \/ UnsupportedFormat
    \/ Normalize
    \/ LoadPDF
    \/ ExtractPage
    \/ FinishPDF
    \/ ShowResult
    \/ Reset

Spec == Init /\ [][Next]_vars

\* ImportSpec: the upload of a file of text or of the six-page document,
\* followed by its import to the database
ImportFiles ==
    {f \in Files : f.body.kind # "pdf"}
    \cup {File(n_pdf, "application/pdf", 10, TRUE,
                [kind |-> "pdf", load |-> "ok", pages |-> SixPages])}

ImportNext ==
    \/ \E f \in ImportFiles : HandleUploadComplete(f)
    \/ ReadFileContent
    \/ ParseCSVFile
    \/ ParseJSONFile
    \/ ParseExcelFile
    \/ UnsupportedFormat
    \/ Normalize
    \/ LoadPDF
    \/ ExtractPage
    \/ FinishPDF
    \/ ShowResult
    \/ \E uid \in {Null, <<"u","1">>},
          api \in {"ok", "createCollection rejects",
                   "addVocabulariesBatch rejects"} :
          HandleImportToDatabase(uid, api)
    \/ Reset

ImportSpec == Init /\ [][ImportNext]_vars

---------------------------------------------------------------------------
(* NormSpec: normalizeRecord on raw records of every shape *)

k_Term == <<"T","e","r","m">>
k_Region == <<"R","e","g","i","o","n">>
k_Pos == <<" ","P","o","s"," ">>
k_notes == <<"n","o","t","e","s">>
k_example1 == <<"e","x","a","m","p","l","e","1">>
k_sample2 == <<"s","a","m","p","l","e","2">>
k_example6 == <<"e","x","a","m","p","l","e","6">>
v_E == <<"E">>
v_v == <<"v">>
v_d == <<"d">>
v_e0 == <<"e","0">>
v_e1 == <<" ","e","1">>
v_e2 == <<"e","2">>
v_list == <<"p",","," ",",","q"," ">>
v_commas == <<" ",","," ">>
v_EU == <<"E","U">>
v_t == <<"t">>

\* the word a record carries, under one alias or several
WordParts ==
    { <<>>,
      << <<s_word, v_Ab>> >>,
      << <<s_word, Null>>, <<k_Term, v_c>> >>,
      << <<s_word, <<>> >>, <<s_term, v_c>> >>,
      << <<s_english, v_E>>, <<s_vocabulary, v_v>> >>,
      << <<s_word, <<" ">> >> >> }

DefinitionParts ==
    { <<>>,
      << <<s_def, v_x>> >>,
      << <<s_description, v_d>>, <<s_meaning, Num(<<"4", "2">>)>> >>,
      << <<s_definition, <<" ">> >>, <<s_def, v_x>> >> }

DifficultyValues ==
    { s_easy, s_medium, s_hard, s_1, s_beginner, s_simple, s_basic,
      s_2, s_intermediate, s_normal, s_average,
      s_3, s_advanced, s_difficult, s_complex, s_challenging,
      <<" ","B","e","g","i","n","n","e","r"," ">>, <<"H","A","R","D">>, <<"b","o","g","u","s">>,
      <<>>, <<" ">>, Num(<<"3">>), Null }

DifficultyParts ==
    {<< <<k, v>> >> : k \in {s_difficulty, s_level, s_hard}, v \in DifficultyValues}

\* optional fields: examples, categories and columns of the file's own
ExtraFields ==
    { <<s_example, v_e0>>, <<s_usage, <<>> >>, <<k_example1, v_e1>>,
      <<k_sample2, v_e2>>, <<k_example6, v_e2>>, <<s_examples, v_list>>,
      <<s_examples, v_commas>>,
      <<s_category, v_list>>, <<s_topic, v_commas>>, <<s_category, <<>> >>,
      <<s_tags, v_t>>, <<s_categories, v_e0>>,
      <<k_Region, v_US>>, <<k_region, v_EU>>, <<k_Pos, v_t>>,
      <<k_notes, Num(<<"7">>)>> }

hasDistinctKeys(fields) ==
    \A i, j \in DOMAIN fields : fields[i][1] = fields[j][1] => i = j

f_base == << <<s_word, v_Ab>>, <<s_def, v_x>> >>

Records ==
    {JNull, JNumber}
    \cup {Obj(w \o d) : w \in WordParts, d \in DefinitionParts}
    \cup {Obj(f_base \o p) : p \in DifficultyParts}
    \cup {Obj(f_base \o e) :
             e \in {x \in SeqsUpTo(ExtraFields, MaxExtras) : hasDistinctKeys(x)}}

NormInit ==
    /\ rawRecord \in Records
    /\ normOut = NotRun
    /\ csvText = <<>>
    /\ csvOut = NotRun
    /\ csvLines = <<>>
    /\ PipeIdle
    /\ OthersIdle

RunNormalizeRecord ==
    /\ normOut = NotRun
    /\ normOut' = normalizeRecord(rawRecord, 0)
    /\ UNCHANGED rawRecord
    /\ UNCHANGED <<csvVars, pipeVars, otherVars>>

NormNext == RunNormalizeRecord

NormSpec == NormInit /\ [][NormNext]_vars

---------------------------------------------------------------------------
(* Claims about the delimited-text parser, checked under CsvSpec *)

CsvRan == csvOut # NotRun

\* the lines of a text, by where they start
lineStarts(text) == {1} \cup {i + 1 : i \in {j \in DOMAIN text : text[j] = "\n"}}
lineEnd(text, p) ==
    SetMin({j \in p..Len(text) : text[j] = "\n"} \cup {Len(text) + 1}) - 1
isBlankLine(text, p) == \A j \in p..lineEnd(text, p) : IsWhitespace(text[j])
nonBlankStarts(text) == {p \in lineStarts(text) : ~isBlankLine(text, p)}

cleanName(h) == toLowerCase(trim(h))

\* the value a data row gives the header cell at position p
cellValue(fields, p) == IF p <= Len(fields) THEN trim(fields[p]) ELSE <<>>

(* C5: a delimited text with a header row and N data rows, blank lines
   anywhere, gives exactly N records, the j-th from the j-th data row, each
   keyed by the lower-cased, trimmed header names; blank lines give none. *)
C5_OneRecordPerDataRow ==
    (CsvRan /\ nonBlankStarts(csvText) # {}) =>
        /\ ~csvOut.threw
        /\ Len(csvOut.value) = Cardinality(nonBlankStarts(csvText)) - 1
        /\ Len(csvLines) = Cardinality(nonBlankStarts(csvText))
        /\ \A j \in DOMAIN csvOut.value :
             LET header == csvLines[1].fields
                 row == csvLines[j + 1].fields
                 record == csvOut.value[j]
             IN  /\ Range(Keys(record)) = {cleanName(header[p]) : p \in DOMAIN header}
                 /\ \A p \in DOMAIN header :
                      (\A q \in DOMAIN header :
                          q > p => cleanName(header[q]) # cleanName(header[p]))
                      => Get(record, cleanName(header[p])) = cellValue(row, p)

C5_Witness ==
    /\ CsvRan
    /\ ~csvOut.threw
    /\ csvText = <<"B", "\n", " ", "\n", "a">>
    /\ csvOut.value = <<Obj(<< <<<<"b">>, <<"a">> >> >>)>>

\* a comma is outside quotes when an even number of quotes precede it
quotesBefore(line, i) == Cardinality({j \in 1..(i - 1) : line[j] = "\""})
outsideCommas(line) ==
    {i \in DOMAIN line : line[i] = "," /\ quotesBefore(line, i) % 2 = 0}
insideCommas(line) ==
    {i \in DOMAIN line : line[i] = "," /\ quotesBefore(line, i) % 2 = 1}

\* the k-th separator of a line, the line's two ends being separators 0 and last
separatorAt(line, k) ==
    IF k = 0 THEN 0
    ELSE IF k > Cardinality(outsideCommas(line)) THEN Len(line) + 1
    ELSE CHOOSE i \in outsideCommas(line) :
             Cardinality({j \in outsideCommas(line) : j < i}) = k - 1

unquoted(s) == SelectSeq(s, LAMBDA c : c # "\"")

(* C6: parseCSVLine separates fields at the commas outside double quotes
   only: there are 1 + (commas outside quotes) fields, the k-th being the
   text between the (k-1)-th and k-th such comma with its quote characters
   removed, commas inside quotes kept. *)
C6_QuotedCommasKept ==
    \A n \in DOMAIN csvLines :
        LET line == csvLines[n].line
            fields == csvLines[n].fields
        IN  /\ Len(fields) = 1 + Cardinality(outsideCommas(line))
            /\ \A k \in DOMAIN fields :
                 fields[k] = unquoted(SubSeq(line, separatorAt(line, k - 1) + 1,
                                             separatorAt(line, k) - 1))

C6_Witness ==
    /\ CsvRan
    /\ csvText = t_smith
    /\ Len(csvLines) = 1
    /\ insideCommas(csvLines[1].line) # {}
    /\ csvLines[1].fields = <<<<"S","m","i","t","h",","," ","J","o","h","n">>, <<"4", "2">> >>


---------------------------------------------------------------------------
(* Claims about the import, checked under Spec *)

HasResult == pc \in {"Succeeded", "Failed", "Preview", "Rejected"}

Ran(name) == name \in Range(calls)

\* the items a successful import carries
importData == IF isPdfUpload THEN result.vocabularyList ELSE result.data

WordNames == <<s_word, s_term, s_vocabulary, s_english>>
DefinitionNames == <<s_definition, s_meaning, s_def, s_description>>

fieldsOf(record) == IF record.kind = "object" THEN record.fields ELSE <<>>

\* the value a raw record has under a column name: that of the last of its
\* keys that cleans to the name, if it is neither null nor undefined
positionsOf(record, name) ==
    {i \in DOMAIN fieldsOf(record) : cleanName(fieldsOf(record)[i][1]) = name}
isPresent(record, name) ==
    /\ positionsOf(record, name) # {}
    /\ ~IsNullish(fieldsOf(record)[SetMax(positionsOf(record, name))][2])
valueOf(record, name) ==
    toString(fieldsOf(record)[SetMax(positionsOf(record, name))][2])

\* the first of the names that is present gives the field
resolved(record, names) ==
    LET present == {a \in DOMAIN names : isPresent(record, names[a])}
    IN  IF present = {} THEN Null ELSE valueOf(record, names[SetMin(present)])

hasText(v) == v # Null /\ \E i \in DOMAIN v : ~IsWhitespace(v[i])

\* a raw record that has a word and a definition
usable(record) ==
    /\ record.kind # "null"
    /\ hasText(resolved(record, WordNames))
    /\ hasText(resolved(record, DefinitionNames))

rejectedRows == {r \in DOMAIN parsedData : ~usable(parsedData[r])}

RowMessages ==
    {"Word field is required and cannot be empty",
     "Definition field is required and cannot be empty",
     "Cannot convert undefined or null to object"}

isRowError(e, r) ==
    \E m \in RowMessages : e = "Row " \o ToString(r) \o ": " \o m

(* C1: every item of a successful import has a non-empty word and at least
   one non-empty definition; the raw records without one are left out of
   data, and each is reported as an error of its row (the list is handed to
   console.warn) while the import still succeeds. *)
C1_ItemsHaveWordAndDefinition ==
    (HasResult /\ result.success) =>
        /\ \A i \in DOMAIN importData :
             /\ importData[i].word # <<>>
             /\ \E d \in DOMAIN importData[i].definitions :
                  importData[i].definitions[d].definition # <<>>
        /\ ~isPdfUpload =>
             LET rejected == rejectedRows
             IN  /\ Len(result.data) = Len(parsedData) - Cardinality(rejected)
                 /\ Len(errors) = Cardinality(rejected)
                 /\ \A r \in rejected :
                      \E e \in DOMAIN errors : isRowError(errors[e], r)
                 /\ rejected # {} => console = <<errors>>

C1_Witness ==
    /\ HasResult
    /\ result.success
    /\ ~isPdfUpload
    /\ Cardinality(rejectedRows) = 1
    /\ Len(result.data) = 1
    /\ \E r \in rejectedRows :
         /\ parsedData[r].kind = "object"
         /\ resolved(parsedData[r], DefinitionNames) = <<" ">>

(* C2: when k of n raw records fail, 0 < k < n, the import succeeds with
   recordCount n - k and its result carries the k row errors, each naming
   its 1-based row, alongside the valid records. *)
C2_RowErrorsInResult ==
    (HasResult /\ Ran("validateAndNormalizeData")
       /\ 0 < Cardinality(rejectedRows)
       /\ Cardinality(rejectedRows) < Len(parsedData)) =>
        /\ result.success
        /\ result.recordCount = Len(parsedData) - Cardinality(rejectedRows)
        /\ \E f \in {"errors", "warnings", "rowErrors"} \cap DOMAIN result :
             /\ Len(result[f]) = Cardinality(rejectedRows)
             /\ \A r \in rejectedRows :
                  \E e \in DOMAIN result[f] : isRowError(result[f][e], r)

(* C3: once a csv or json content has parsed into raw records, the import
   fails exactly when there are no records or every record failed; a
   success has recordCount >= 1. *)
C3_FailsOnlyWhenNothingUsable ==
    (HasResult /\ Ran("validateAndNormalizeData")) =>
        /\ ~result.success <=>
             (Len(parsedData) = 0
                \/ Cardinality(rejectedRows) = Len(parsedData))
        /\ result.success =>
             (result.recordCount >= 1 /\ result.recordCount = Len(result.data))

C3_Witness ==
    /\ HasResult
    /\ Ran("validateAndNormalizeData")
    /\ ~result.success
    /\ Len(parsedData) = 2
    /\ Cardinality(rejectedRows) = 2

(* C4: a csv file whose content has no non-blank line, a zero-byte file
   included, makes parseCSV throw its parse error, and the import returns a
   failure with that error. *)
C4_EmptyCsvFails ==
    (pc \notin {"Idle", "Reading", "Parsing"}
       /\ getFileExtension(file.name) = s_csv
       /\ file.readable
       /\ nonBlankStarts(file.body.text) = {}) =>
        /\ Ran("parseCSV")
        /\ ~Ran("validateAndNormalizeData")
        /\ HasResult
        /\ ~result.success
        /\ result.error = "CSV parsing error: CSV file is empty"

C4_Witness ==
    /\ pc = "Failed"
    /\ getFileExtension(file.name) = s_csv
    /\ file.readable
    /\ file.body.text = <<>>
    /\ result.error = "CSV parsing error: CSV file is empty"


JsonErrors ==
    {"JSON parsing error: Unexpected token",
     "JSON parsing error: JSON must contain an array of vocabulary items"}

(* C7: parseJSON fails with a parse error when the content is malformed or
   decodes to anything but an array, and then nothing is normalized; for an
   array it returns the elements unchanged and in order as the raw
   records. *)
C7_JsonArrayOnly ==
    (pc \notin {"Idle", "Reading", "Parsing"}
       /\ getFileExtension(file.name) = s_json
       /\ file.readable) =>
        /\ Ran("parseJSON")
        /\ IF file.body.doc.kind = "array"
           THEN parsedData = file.body.doc.elems
           ELSE /\ HasResult
                /\ ~result.success
                /\ result.error \in JsonErrors
                /\ parsedData = <<>>
                /\ ~Ran("validateAndNormalizeData")

C7_Witness ==
    /\ pc = "Failed"
    /\ getFileExtension(file.name) = s_json
    /\ file.readable
    /\ file.body.doc.kind = "object"
    /\ result.error =
         "JSON parsing error: JSON must contain an array of vocabulary items"

Parsers ==
    {"parseCSV", "parseJSON", "parseExcel", "extractTextFromPDF",
     "parseVocabularyFromText"}

parsersRun == Range(calls) \cap Parsers

isRecognised(fileExtension) == fileExtension \in supportedFormats \cup {s_pdf}

unsupportedFormatError ==
    "Unsupported file format: " \o Str(getFileExtension(file.name))

(* C8 as stated: a file whose extension is not recognised fails with the
   unsupported-format error, no parser and no normalization having run. *)
C8_UnsupportedFormatError ==
    (HasResult /\ ~isRecognised(getFileExtension(file.name))) =>
        /\ ~result.success
        /\ result.error = unsupportedFormatError
        /\ parsersRun = {}
        /\ ~Ran("validateAndNormalizeData")

(* C8: a file whose extension is not recognised fails without any parser or
   normalization having run; its content is read before its extension is
   looked at, so the error is the unsupported-format error when the content
   could be read and the read error when it could not. *)
C8_UnsupportedAfterRead ==
    (HasResult /\ ~isRecognised(getFileExtension(file.name))) =>
        /\ ~result.success
        /\ Ran("readFileContent")
        /\ result.error = IF file.readable THEN unsupportedFormatError
                          ELSE "Failed to read file"
        /\ parsersRun = {}
        /\ ~Ran("validateAndNormalizeData")

C8_Witness ==
    /\ pc = "Failed"
    /\ file.name = n_txt
    /\ file.readable
    /\ result.error = "Unsupported file format: txt"
    /\ parsersRun = {}

parsersOf(fileExtension) ==
    IF fileExtension = s_csv THEN {"parseCSV"}
    ELSE IF fileExtension = s_json THEN {"parseJSON"}
    ELSE IF fileExtension \in {s_xlsx, s_xls} THEN {"parseExcel"}
    ELSE IF fileExtension = s_pdf
         THEN {"extractTextFromPDF", "parseVocabularyFromText"}
    ELSE {}

(* C9 as stated: the extension alone decides the route, and every file of
   an accepted extension reaches the parsers of that extension. *)
C9_EveryFileReachesItsParser ==
    HasResult => parsersRun = parsersOf(getFileExtension(file.name))

(* C9: the extension alone decides the route (pdf to processPDFFile, the
   rest to parseFile and its switch) and no file reaches the parser of
   another extension; a csv, json, xlsx or xls file reaches its parser
   exactly when its content could be read, a pdf file reaches the text
   extraction exactly when its type is application/pdf and its size at most
   maxSize, and the plain-text parser exactly when the document loaded and
   at least 10 characters of text were extracted. *)
C9_DispatchByExtension ==
    HasResult =>
        /\ calls[1] = IF isPdfUpload THEN "processPDFFile" ELSE "parseFile"
        /\ parsersRun \subseteq parsersOf(getFileExtension(file.name))
        /\ getFileExtension(file.name) \in supportedFormats =>
             (parsersRun = parsersOf(getFileExtension(file.name))
                <=> file.readable)
        /\ isPdfUpload =>
             /\ Ran("extractTextFromPDF") <=>
                  (file.type = "application/pdf" /\ file.size <= maxSize)
             /\ Ran("parseVocabularyFromText") <=>
                  /\ Ran("extractTextFromPDF")
                  /\ loadOutcome(file) = "ok"
                  /\ Len(trim(fullText)) >= 10

C9_Witness ==
    /\ HasResult
    /\ file.name = n_PDF
    /\ calls = <<"processPDFFile", "extractTextFromPDF",
                 "parseVocabularyFromText">>
    /\ result.success
    /\ result.vocabularyCount = 1

\* the place in data of the item made from row r, the rows kept being rows
placeOf(r, rows) == 1 + Cardinality({q \in rows : q < r})

\* out is s without its leading and trailing whitespace
isTrimOf(out, s) ==
    \E a \in 0..Len(s) :
        /\ a + Len(out) <= Len(s)
        /\ \A i \in DOMAIN out : out[i] = s[a + i]
        /\ \A i \in DOMAIN s :
             (i <= a \/ i > a + Len(out)) => IsWhitespace(s[i])
        /\ out # <<>> =>
             (~IsWhitespace(out[1]) /\ ~IsWhitespace(out[Len(out)]))

\* out is s with its upper-case letters made lower-case
isLowerOf(out, s) ==
    /\ Len(out) = Len(s)
    /\ \A i \in DOMAIN s :
         IF \E j \in DOMAIN UpperChars : UpperChars[j] = s[i]
         THEN \E j \in DOMAIN UpperChars :
                  UpperChars[j] = s[i] /\ LowerChars[j] = out[i]
         ELSE out[i] = s[i]

(* C10: the item normalizeRecord makes of a raw record has as word the
   resolved word value trimmed and lower-cased, and as definitions exactly
   one entry, the resolved definition value trimmed with its case kept. *)
C10_WordLoweredDefinitionKept ==
    (HasResult /\ result.success /\ ~isPdfUpload) =>
        LET rows == DOMAIN parsedData \ rejectedRows
        IN  /\ Len(result.data) = Cardinality(rows)
            /\ \A r \in rows :
                 LET item == result.data[placeOf(r, rows)]
                     word == resolved(parsedData[r], WordNames)
                     definition == resolved(parsedData[r], DefinitionNames)
                 IN  /\ \E w \in {trim(word)} :
                          isTrimOf(w, word) /\ isLowerOf(item.word, w)
                     /\ Len(item.definitions) = 1
                     /\ isTrimOf(item.definitions[1].definition, definition)

C10_Witness ==
    /\ HasResult
    /\ result.success
    /\ ~isPdfUpload
    /\ parsedData[1] = Obj(<< <<s_word, v_Ab>>, <<s_def, v_x>> >>)
    /\ result.data[1].word = <<"a", "b">>
    /\ result.data[1].definitions = <<[definition |-> <<"X", " ", "y">>]>>

---------------------------------------------------------------------------
(* Claims about the field normalizer, checked under NormSpec *)

NormRan == normOut # NotRun

DifficultyNames == <<s_difficulty, s_level, s_hard>>

\* the values the normalizer knows besides easy, medium and hard
EasyNames == {s_1, s_beginner, s_simple, s_basic}
MediumNames == {s_2, s_intermediate, s_normal, s_average}
HardNames == {s_3, s_advanced, s_difficult, s_complex, s_challenging}

(* C11: the difficulty of an item is always easy, medium or hard: beginner,
   1 and simple give easy, intermediate, 2 and average give medium,
   advanced, 3, complex and challenging give hard, whatever their case and
   surrounding blanks; a value the normalizer does not know, the empty
   string and an absent field give medium; and a record is rejected for
   its word or definition only, never for its difficulty. *)
C11_DifficultyIsTotal ==
    NormRan =>
        /\ normOut.threw <=> ~usable(rawRecord)
        /\ ~normOut.threw =>
             LET v == resolved(rawRecord, DifficultyNames)
                 d == normOut.value.difficulty
             IN  /\ d \in {s_easy, s_medium, s_hard}
                 /\ (v = Null \/ v = <<>>) => d = s_medium
                 /\ (v # Null /\ v # <<>>) =>
                      /\ cleanName(v) \in {s_easy, s_medium, s_hard}
                           => d = cleanName(v)
                      /\ cleanName(v) \in {s_beginner, s_1, s_simple}
                           => d = s_easy
                      /\ cleanName(v) \in {s_intermediate, s_2, s_average}
                           => d = s_medium
                      /\ cleanName(v) \in {s_advanced, s_3, s_complex,
                                           s_challenging}
                           => d = s_hard
                      /\ cleanName(v) \notin
                           {s_easy, s_medium, s_hard} \cup EasyNames
                             \cup MediumNames \cup HardNames
                           => d = s_medium

C11_Witness ==
    /\ NormRan
    /\ ~normOut.threw
    /\ resolved(rawRecord, DifficultyNames) =
         <<" ","B","e","g","i","n","n","e","r"," ">>
    /\ normOut.value.difficulty = s_easy

\* a column name that is the file's own: no alias, no numbered example
isCustomName(name) ==
    /\ name \notin standardFields
    /\ ~\E n \in 1..(Len(name) - 1) :
          /\ SubSeq(name, 1, n) \in {s_example, s_sentence, s_sample}
          /\ \A i \in (n + 1)..Len(name) : IsDigit(name[i])

customPositions(record) ==
    {i \in DOMAIN fieldsOf(record) : isCustomName(cleanName(fieldsOf(record)[i][1]))}

(* C12 as stated: customFields holds exactly the input fields whose cleaned
   name is neither a standard alias nor a numbered example, each under its
   own key with its own value. *)
C12_CustomFieldsAreInputFields ==
    (NormRan /\ ~normOut.threw) =>
        /\ Range(Keys(normOut.value.customFields)) =
             {rawRecord.fields[i][1] : i \in customPositions(rawRecord)}
        /\ \A i \in customPositions(rawRecord) :
             Get(normOut.value.customFields, rawRecord.fields[i][1])
               = rawRecord.fields[i][2]

(* C12: customFields holds, under its lower-cased and trimmed name, every
   input field whose cleaned name is neither a standard alias nor a
   numbered example, with the value the input gave it (that of the last
   field, when several clean to one name); no standard alias and no
   numbered example is among its keys. *)
C12_CustomFieldsByCleanName ==
    (NormRan /\ ~normOut.threw) =>
        /\ Range(Keys(normOut.value.customFields)) =
             {cleanName(rawRecord.fields[i][1]) :
                 i \in customPositions(rawRecord)}
        /\ \A i \in customPositions(rawRecord) :
             (\A j \in customPositions(rawRecord) :
                 j > i => cleanName(rawRecord.fields[j][1])
                            # cleanName(rawRecord.fields[i][1]))
             => Get(normOut.value.customFields,
                    cleanName(rawRecord.fields[i][1]))
                  = rawRecord.fields[i][2]
        /\ \A k \in Range(Keys(normOut.value.customFields)) : isCustomName(k)

C12_Witness ==
    /\ NormRan
    /\ ~normOut.threw
    /\ rawRecord = Obj(f_base \o << <<k_Region, v_US>>, <<k_example6, v_e2>> >>)
    /\ normOut.value.customFields = Obj(<< <<k_region, v_US>> >>)

---------------------------------------------------------------------------
(* Further claims about the import, checked under Spec *)

\* the field names of the raw records the format parser produced
rawColumns ==
    UNION {{Str(fieldsOf(parsedData[r])[i][1]) :
               i \in DOMAIN fieldsOf(parsedData[r])} : r \in DOMAIN parsedData}

(* C13: on success the detectedColumns of the result are the union of the
   field names of the raw records (the csv header names, the json object
   keys), so that a raw column such as term or region is among them. *)
C13_DetectedColumnsAreRawColumns ==
    (HasResult /\ result.success /\ ~isPdfUpload) =>
        Range(result.detectedColumns) = rawColumns

\* the item normalizeRecord makes of the raw record of row r
itemOf(r) == normalizeRecord(parsedData[r], r - 1).value

(* C14: the items of a successful result stand in the order of the rows
   they were made from: the item of an accepted row comes after the items
   of the accepted rows before it and before those of the accepted rows
   after it, each accepted row gives one item, and a rejected row gives
   none. *)
C14_OrderOfRowsKept ==
    (HasResult /\ result.success /\ ~isPdfUpload) =>
        LET rows == DOMAIN parsedData \ rejectedRows
        IN  /\ Len(result.data) = Cardinality(rows)
            /\ \A r \in rows : result.data[placeOf(r, rows)] = itemOf(r)
            /\ \A i, j \in rows :
                 i < j => placeOf(i, rows) < placeOf(j, rows)

C14_Witness ==
    /\ HasResult
    /\ result.success
    /\ ~isPdfUpload
    /\ Len(parsedData) = 3
    /\ rejectedRows = {2}
    /\ result.data[1].word = <<"a", "b">>
    /\ result.data[2].word = <<"c">>

PartialFields ==
    {"data", "recordCount", "sampleData", "detectedColumns",
     "vocabularyList", "vocabularyCount", "sampleWords"}

(* C15: an import that ends in a fatal error (a parse error, an unsupported
   format, no records, every row invalid) returns success false with an
   error message and nothing of a result: no data, recordCount or
   sampleData field, also when raw records had been parsed; and nothing is
   put in the preview. *)
C15_NoPartialResult ==
    (HasResult /\ ~result.success) =>
        /\ "error" \in DOMAIN result
        /\ result.error # ""
        /\ DOMAIN result \cap PartialFields = {}
        /\ parseResults = [pending |-> TRUE]
        /\ ~showPreview

C15_Witness ==
    /\ pc = "Rejected"
    /\ ~result.success
    /\ Ran("validateAndNormalizeData")
    /\ Len(parsedData) >= 1
    /\ DOMAIN result = {"success", "error", "fileName"}

\* the text has been extracted from a pdf document that loaded
Extracted ==
    /\ HasResult
    /\ isPdfUpload
    /\ Ran("extractTextFromPDF")
    /\ loadOutcome(file) = "ok"

\* the lines of a text, trimmed
trimmedLines(text) ==
    [i \in DOMAIN split(text, "\n") |-> trim(split(text, "\n")[i])]

\* the patterns that give a line a pair that passes the checks
firing(line) ==
    {n \in 1..8 : Len(line) >= 5 /\ matchedItem(matchPattern(line, n)) # <<>>}

pairedLines(lines) == {i \in DOMAIN lines : firing(lines[i]) # {}}

NoPatternWarning ==
    "No vocabulary patterns detected. Please ensure "
      \o "the PDF contains word-definition pairs."

(* C16 as stated: text without any recognizable word-definition pattern
   still gives a non-empty list of items, each flagged requiresReview, and
   processing neither raises nor returns an empty result. *)
C16_FallbackItemsForReview ==
    (Extracted /\ pairedLines(trimmedLines(fullText)) = {}) =>
        /\ result.success
        /\ Len(result.vocabularyList) >= 1
        /\ \A i \in DOMAIN result.vocabularyList :
             /\ "requiresReview" \in DOMAIN result.vocabularyList[i]
             /\ result.vocabularyList[i].requiresReview

(* C16: text without any recognizable word-definition pattern gives no
   items at all: when it has at least 10 characters after trimming, the
   import succeeds with an empty list, a count of 0 and one warning that
   no pattern was detected; when it has fewer, the import fails for lack
   of readable text. *)
C16_NoPatternGivesEmptyList ==
    (Extracted /\ pairedLines(trimmedLines(fullText)) = {}) =>
        IF Len(trim(fullText)) >= 10
        THEN /\ result.success
             /\ result.vocabularyList = <<>>
             /\ result.vocabularyCount = 0
             /\ result.warnings = <<NoPatternWarning>>
        ELSE /\ ~result.success
             /\ result.error = "No readable text found in PDF. The file "
                               \o "might be image-only or corrupted."

C16_Witness ==
    /\ Extracted
    /\ fullText = t_prose \o <<"\n">>
    /\ result.success
    /\ result.vocabularyList = <<>>
    /\ result.warnings = <<NoPatternWarning>>

\* the item the first firing pattern gives a line
firstPair(line) == matchedItem(matchPattern(line, SetMin(firing(line))))[1]

\* the place among the paired lines of the paired line i
pairPlace(i, paired) == 1 + Cardinality({j \in paired : j < i})

(* C17 as stated: the first strategy, in the fixed order, that yields a
   pair anywhere in the text supplies the whole result, and no later
   strategy adds to it. *)
C17_OneStrategySuppliesAll ==
    (Extracted /\ result.success) =>
        LET lines == trimmedLines(fullText)
            paired == pairedLines(lines)
        IN  paired # {} =>
              LET winner == SetMin(UNION {firing(lines[i]) : i \in paired})
              IN  Len(result.vocabularyList) =
                    Cardinality({i \in paired : winner \in firing(lines[i])})

(* C17: the patterns are tried in a fixed order on each line by itself, and
   the first pattern whose match passes the checks supplies that line's
   pair, later patterns not adding to it; the list holds one pair for each
   line that some pattern fits, in line order, so that the lines
   "apple - a fruit" and "banana - a fruit" give exactly the 2 pairs apple
   and banana. *)
C17_FirstPatternPerLine ==
    (Extracted /\ result.success) =>
        LET lines == trimmedLines(fullText)
            paired == pairedLines(lines)
        IN  /\ Len(result.vocabularyList) = Cardinality(paired)
            /\ \A i \in paired :
                 result.vocabularyList[pairPlace(i, paired)]
                   = firstPair(lines[i])

C17_Witness ==
    /\ Extracted
    /\ result.success
    /\ fullText = t_apple \o <<"\n">> \o t_banana \o <<"\n">>
    /\ Len(result.vocabularyList) = 2
    /\ result.vocabularyList[1].word = <<"a","p","p","l","e">>
    /\ result.vocabularyList[2].word = <<"b","a","n","a","n","a">>
    /\ firing(t_apple) = {1, 5}

(* ---------------------------------------------------------------------- *)
(* Further claims about the field normalizer, checked under NormSpec       *)
(* ---------------------------------------------------------------------- *)

WordRequired == "Word field is required and cannot be empty"
DefinitionRequired == "Definition field is required and cannot be empty"

threwWith(outcome, message) == outcome.threw /\ outcome.message = message

(* C18: the word is the value of the first of word, term, vocabulary,
   english that is neither null nor undefined, the definition likewise of
   definition, meaning, def, description; the record is rejected for its
   word exactly when no alias qualifies or the value is blank after
   trimming, for its definition exactly when the word is there and the
   definition is not, and is accepted in every other case. *)
C18_RequiredFieldsByFirstAlias ==
    (NormRan /\ rawRecord.kind # "null") =>
        LET word == resolved(rawRecord, WordNames)
            definition == resolved(rawRecord, DefinitionNames)
        IN  /\ threwWith(normOut, WordRequired) <=> ~hasText(word)
            /\ threwWith(normOut, DefinitionRequired)
                 <=> (hasText(word) /\ ~hasText(definition))
            /\ normOut.threw =>
                 normOut.message \in {WordRequired, DefinitionRequired}

C18_Witness ==
    /\ NormRan
    /\ rawRecord = Obj(<< <<s_word, <<>> >>, <<s_term, v_c>>,
                          <<s_def, v_x>> >>)
    /\ resolved(rawRecord, WordNames) = <<>>
    /\ threwWith(normOut, WordRequired)

SingleExampleNames == <<s_example, s_sentence, s_usage, s_sample>>
ListedExampleNames == <<s_examples, s_sentences, s_usages>>

\* the entry of the single example field of a raw record, if it has one
singleTier(record) ==
    LET example == resolved(record, SingleExampleNames)
    IN  IF example # Null /\ example # <<>>
        THEN <<[example |-> trim(example)]>>
        ELSE <<>>

\* the entries of the numbered example fields from i to 5
RECURSIVE numberedTier(_, _)
numberedTier(record, i) ==
    IF i > 5 THEN <<>>
    ELSE LET field == resolved(record, numberedNames(<<ToString(i)>>))
         IN  (IF field # Null /\ field # <<>>
              THEN <<[example |-> trim(field)]>>
              ELSE <<>>) \o numberedTier(record, i + 1)

\* the entries of the comma-separated examples field
listedTier(record) ==
    LET examplesField == resolved(record, ListedExampleNames)
    IN  IF examplesField # Null /\ examplesField # <<>>
        THEN examplesOf(splitTrimmed(examplesField))
        ELSE <<>>

(* C19: the examples of a normalized item come from exactly one of three
   tiers, the first in order that yields at least one entry: the single
   example field, the numbered fields example1..example5, the comma-split
   examples field; a record with a single example field and numbered ones
   gets the single-field entry only. *)
C19_ExamplesFromFirstTier ==
    (NormRan /\ ~normOut.threw) =>
        normOut.value.examples =
            IF singleTier(rawRecord) # <<>> THEN singleTier(rawRecord)
            ELSE IF numberedTier(rawRecord, 1) # <<>>
                 THEN numberedTier(rawRecord, 1)
            ELSE listedTier(rawRecord)

\* what the code does: the numbered entries follow the single one
C19_NumberedFollowSingle ==
    (NormRan /\ ~normOut.threw) =>
        normOut.value.examples =
            IF singleTier(rawRecord) \o numberedTier(rawRecord, 1) # <<>>
            THEN singleTier(rawRecord) \o numberedTier(rawRecord, 1)
            ELSE listedTier(rawRecord)

C19_SingleAndNumbered ==
    /\ NormRan
    /\ rawRecord = Obj(f_base \o << <<s_example, v_e0>>, <<k_example1, v_e1>> >>)
    /\ ~normOut.threw
    /\ Len(normOut.value.examples) = 2

CategoryNames == <<s_category, s_topic, s_subject, s_theme>>
CategoriesNames == <<s_categories, s_topics, s_subjects, s_tags>>

\* the trimmed, non-empty parts of a field, none for a field without value
partsOf(field) ==
    IF field # Null /\ field # <<>> THEN splitTrimmed(field) ELSE <<>>

(* C20 as stated: the categories are the parts of the singular field
   whenever that field is present and non-empty, and those of the plural
   field only otherwise. *)
C20_SingularWhenNonEmpty ==
    (NormRan /\ ~normOut.threw) =>
        LET category == resolved(rawRecord, CategoryNames)
        IN  normOut.value.categories =
              IF category # Null /\ category # <<>>
              THEN partsOf(category)
              ELSE partsOf(resolved(rawRecord, CategoriesNames))

(* C20: the categories of a normalized item are the trimmed, non-empty
   comma-split parts of the singular category-family field whenever that
   field gives at least one such part, and those of the plural
   categories-family field otherwise; when the singular field gives a
   part, no element of the plural field is included. *)
C20_SingularWhenItHasParts ==
    (NormRan /\ ~normOut.threw) =>
        LET category == resolved(rawRecord, CategoryNames)
        IN  normOut.value.categories =
              IF partsOf(category) # <<>>
              THEN partsOf(category)
              ELSE partsOf(resolved(rawRecord, CategoriesNames))

C20_Witness ==
    /\ NormRan
    /\ ~normOut.threw
    /\ resolved(rawRecord, CategoryNames) = v_list
    /\ resolved(rawRecord, CategoriesNames) = v_t
    /\ normOut.value.categories = <<<<"p">>, <<"q">>>>

(* ---------------------------------------------------------------------- *)
(* Claims about the course of one import, checked under Spec               *)
(* ---------------------------------------------------------------------- *)

\* what the format parser of the file makes of the content that was read
formatOutcome ==
    LET parser == parserFor(getFileExtension(file.name))
    IN  IF parser = "parseCSV" THEN parseCSV(content.text)
        ELSE IF parser = "parseJSON" THEN parseJSON(content.doc)
        ELSE IF parser = "parseExcel" THEN parseExcel(content)
        ELSE Threw("Unsupported file format")

\* the stage of the import: the file is read as part of parsing
stageOf(p) == IF p = "Reading" THEN "Parsing" ELSE p

occurrences(name) == Cardinality({i \in DOMAIN calls : calls[i] = name})

\* one step of an invocation of parseFile
C21_Step ==
    (calls' # <<>> /\ calls'[1] = "parseFile" /\ pc' # pc) =>
        /\ stageOf(pc') # stageOf(pc) =>
             \/ stageOf(pc) = "Idle" /\ stageOf(pc') = "Parsing"
             \/ stageOf(pc) = "Parsing"
                  /\ stageOf(pc') \in {"Normalizing", "Failed"}
             \/ stageOf(pc) = "Normalizing"
                  /\ stageOf(pc') \in {"Succeeded", "Failed"}
             \/ pc = "Succeeded" /\ pc' = "Preview"
             \/ pc = "Failed" /\ pc' = "Rejected"
        /\ pc' = "Normalizing" =>
             /\ ~formatOutcome.threw
             /\ parsedData' = formatOutcome.value
        /\ (pc = "Parsing" /\ ~formatOutcome.threw) => pc' = "Normalizing"

\* the parser and the normalizer ran once at most, and the outcome is one
C21_Once ==
    (calls # <<>> /\ calls[1] = "parseFile") =>
        /\ \A name \in Parsers \cup {"readFileContent",
                                     "validateAndNormalizeData"} :
             occurrences(name) <= 1
        /\ pc = "Succeeded" => result.success
        /\ pc = "Failed" => ~result.success
        /\ Ran("validateAndNormalizeData") => parsersRun # {}

(* C21: every invocation of parseFile goes Idle -> Parsing -> Normalizing
   -> Succeeded or Failed: normalization starts only after the format
   parser has completed without error, Failed is entered from Parsing or
   Normalizing and Succeeded from Normalizing only, no step is taken twice,
   and an invocation has one outcome, which no later step changes. *)
C21_PipelineStages ==
    /\ [][C21_Step]_vars
    /\ []C21_Once

C21_Witness ==
    /\ pc = "Succeeded"
    /\ calls = <<"parseFile", "readFileContent", "parseCSV",
                 "validateAndNormalizeData">>
    /\ result.success

\* the text of the runs of a page, a space between two runs
RECURSIVE runsText(_, _)
runsText(items, n) ==
    IF n = 0 THEN <<>>
    ELSE IF n = 1 THEN items[1]
    ELSE runsText(items, n - 1) \o <<" ">> \o items[n]

\* the text of the first n pages: a line for each page that did not fail
RECURSIVE pagesText(_, _)
pagesText(pages, n) ==
    IF n = 0 THEN <<>>
    ELSE pagesText(pages, n - 1)
           \o (IF pages[n].fails THEN <<>>
               ELSE runsText(pages[n].items, Len(pages[n].items)) \o <<"\n">>)

(* C22: extraction visits the pages 1..numPages in ascending order; a page
   that fails contributes no text and the next page is taken, the text of
   every other page is in the output in page order, and the extraction
   does not fail because a page failed. *)
C22_FailingPagesSkipped ==
    /\ pc = "Extracting" =>
         /\ pageNum \in 1..(Len(file.body.pages) + 1)
         /\ fullText = pagesText(file.body.pages, pageNum - 1)
    /\ Extracted =>
         /\ fullText = pagesText(file.body.pages, Len(file.body.pages))
         /\ Ran("parseVocabularyFromText") \/
              result.error = "No readable text found in PDF. The file "
                             \o "might be image-only or corrupted."
         /\ Len(trim(fullText)) >= 10 => result.success

C22_Witness ==
    /\ Extracted
    /\ file.body.pages = <<FailingPage, Page(<<t_apple>>)>>
    /\ fullText = t_apple \o <<"\n">>
    /\ result.success

---------------------------------------------------------------------------
(* ConcSpec: several calls of parseFile on the one fileParsingService,     *)
(* their awaited steps interleaved                                         *)

MaxInvocations == 2

Invocations == 1..MaxInvocations

\* the fields the constructor gives the service
newService ==
    [supportedFormats |-> <<s_csv, s_json, s_xlsx, s_xls>>,
     requiredFields |-> <<s_word, s_definition>>]

\* the locals of a call of parseFile before the call is made
notCalled ==
    [pc |-> "Idle", file |-> [name |-> <<>>], content |-> <<>>,
     parsedData |-> <<>>, result |-> [pending |-> TRUE]]

ConcFiles ==
    { File(n_csv, "text/csv", 10, TRUE, Text(join(<<l_header, l_valid>>, "\n"))),
      File(n_csv, "text/csv", 10, TRUE, Text(join(<<l_header, l_nodef>>, "\n"))),
      File(n_json, "application/json", 10, TRUE, Json([kind |-> "object"])),
      File(n_json, "application/json", 10, TRUE,
           Json([kind |-> "array",
                 elems |-> <<Obj(<< <<s_term, v_c>>, <<s_meaning, v_x>> >>)>>])),
      File(n_txt, "", 10, TRUE, Text(<<>>)),
      File(n_csv, "text/csv", 10, FALSE, Text(<<>>)) }

\* the object parseFile returns when nothing threw
parseFileSuccess(validatedData, f) ==
    [success |-> TRUE,
     data |-> validatedData,
     fileName |-> f.name,
     fileType |-> getFileExtension(f.name),
     recordCount |-> Len(validatedData),
     detectedColumns |-> getDetectedColumns(validatedData),
     sampleData |-> slice(validatedData, 0, 5)]

\* the switch of parseFile on the content that was read
switchOutcome(fileExtension, c) ==
    IF parserFor(fileExtension) = "parseCSV" THEN parseCSV(c.text)
    ELSE IF parserFor(fileExtension) = "parseJSON" THEN parseJSON(c.doc)
    ELSE IF parserFor(fileExtension) = "parseExcel" THEN parseExcel(c)
    ELSE Threw("Unsupported file format: " \o Str(fileExtension))

failed(locals, message) ==
    [locals EXCEPT !.pc = "Failed", !.result = Failure(message, locals.file)]

parsedStep(locals, outcome) ==
    IF outcome.threw THEN failed(locals, outcome.message)
    ELSE [locals EXCEPT !.pc = "Normalizing", !.parsedData = outcome.value]

normalizedStep(locals, v) ==
    IF v.threw THEN failed(locals, v.message)
    ELSE [locals EXCEPT !.pc = "Succeeded",
                        !.result = parseFileSuccess(v.value, locals.file)]

\* mutant: the content that was read is kept on the service
parseFileStep_ContentOnService(svc, locals) ==
    IF locals.pc = "Reading"
    THEN IF locals.file.readable
         THEN [service |-> [supportedFormats |-> svc.supportedFormats,
                            requiredFields |-> svc.requiredFields,
                            content |-> locals.file.body],
               locals |-> [locals EXCEPT !.pc = "Parsing"]]
         ELSE [service |-> svc, locals |-> failed(locals, "Failed to read file")]
    ELSE IF locals.pc = "Parsing"
    THEN [service |-> svc,
          locals |-> parsedStep(locals,
                         switchOutcome(getFileExtension(locals.file.name),
                                       svc.content))]
    ELSE [service |-> svc,
          locals |-> normalizedStep(locals,
                         validateAndNormalizeData(locals.parsedData))]

\* one awaited step of parseFile: it reads and writes the call's locals,
\* and no field of the service
parseFileStep(svc, locals) ==
    IF locals.pc = "Reading"
    THEN IF locals.file.readable
         THEN [service |-> svc,
               locals |-> [locals EXCEPT !.pc = "Parsing",
                                         !.content = locals.file.body]]
         ELSE [service |-> svc, locals |-> failed(locals, "Failed to read file")]
    ELSE IF locals.pc = "Parsing"
    THEN [service |-> svc,
          locals |-> parsedStep(locals,
                         switchOutcome(getFileExtension(locals.file.name),
                                       locals.content))]
    ELSE [service |-> svc,
          locals |-> normalizedStep(locals,
                         validateAndNormalizeData(locals.parsedData))]

ConcInit ==
    /\ service = newService
    /\ invocations = [i \in Invocations |-> notCalled]
    /\ csvText = <<>>
    /\ csvOut = NotRun
    /\ csvLines = <<>>
    /\ PipeIdle
    /\ NormIdle
    /\ AiIdle
    /\ AppIdle

\* parseFile is called: it runs up to its first await
CallParseFile(i, f) ==
    /\ invocations[i].pc = "Idle"
    /\ invocations' =
         [invocations EXCEPT ![i] = [notCalled EXCEPT !.pc = "Reading",
                                                     !.file = f]]
    /\ UNCHANGED service
    /\ UNCHANGED <<csvVars, normVars, pipeVars, aiVars, appVars>>

Stepped(i, step) ==
    /\ service' = step.service
    /\ invocations' = [invocations EXCEPT ![i] = step.locals]

\* an awaited promise of call i settles and the call runs to its next await
ResumeParseFile(i) ==
    /\ invocations[i].pc \in {"Reading", "Parsing", "Normalizing"}
    /\ Stepped(i, parseFileStep(service, invocations[i]))
    /\ UNCHANGED <<csvVars, normVars, pipeVars, aiVars, appVars>>

ConcNext ==
    \/ \E i \in Invocations, f \in ConcFiles : CallParseFile(i, f)
    \/ \E i \in Invocations : ResumeParseFile(i)

ConcSpec == ConcInit /\ [][ConcNext]_vars

\* a call that runs with no other call on a new service
RECURSIVE ranAlone(_, _)
ranAlone(svc, locals) ==
    IF locals.pc \in {"Succeeded", "Failed"} THEN locals.result
    ELSE ranAlone(parseFileStep(svc, locals).service,
                  parseFileStep(svc, locals).locals)

parseFileAlone(f) ==
    ranAlone(newService, [notCalled EXCEPT !.pc = "Reading", !.file = f])

isDone(i) == invocations[i].pc \in {"Succeeded", "Failed"}

(* C23: calls of parseFile on the shared service are independent: however
   their awaited steps interleave, each call returns the result it returns
   when it runs alone, and no call changes the state of the service, the
   only state another call can observe. *)
C23_InvocationsIndependent ==
    /\ service = newService
    /\ \A i \in Invocations :
         isDone(i) => invocations[i].result = parseFileAlone(invocations[i].file)

C23_Witness ==
    /\ isDone(1) /\ isDone(2)
    /\ invocations[1].file.name = n_csv /\ invocations[1].result.success
    /\ invocations[2].file.name = n_json /\ ~invocations[2].result.success

---------------------------------------------------------------------------
(* The example-sentence service (OpenAIService)                            *)

\* requestsPerMinute is 10 and cacheMaxSize is 500 in the source: the model
\* takes them small, so that the limit and the full cache are reached
requestsPerMinute == 2
cacheMaxSize == 2
oneMinute == 60000
cacheExpiry == 86400000

k_placeholder == <<"y","o","u","r","_","o","p","e","n","a","i","_","a","p","i","_","k","e","y","_","h","e","r","e">>
s_undefined == <<"u","n","d","e","f","i","n","e","d">>
s_null == <<"n","u","l","l">>
p_the_word == <<"T","h","e"," ","w","o","r","d"," ","\"">>
p_means == <<"\""," ","m","e","a","n","s"," ">>
p_in_this_context == <<"I","n"," ","t","h","i","s"," ","c","o","n","t","e","x","t",","," ","\"">>
p_refers_to == <<"\""," ","r","e","f","e","r","s"," ","t","o"," ">>
k_e30 == <<"e","3","0","=">>
k_easy64 == <<"e","y","J","k","a","W","Z","m","a","W","N","1","b","H","R","5","I","j","o","i","Z","W","F","z","e","S","J","9">>

\* a JavaScript array of strings
Arr(elems) == [kind |-> "array", elems |-> elems]

isFalsy(v) == v \in {Undefined, Null, <<>>}

isConfigured(key) == ~isFalsy(key) /\ key # k_placeholder

\* `${v}` in a template literal
inTemplate(v) == IF v = Undefined THEN s_undefined ELSE IF v = Null THEN s_null ELSE v

\* the two sentences made of the word and the definition; a definition
\* that is undefined or null has no toLowerCase, and the call throws
generateFallbackExamples(word, definition) ==
    IF definition \in {Undefined, Null}
    THEN Threw("Cannot read properties of undefined (reading 'toLowerCase')")
    ELSE Returned(Arr(
           << p_the_word \o inTemplate(word) \o p_means
                \o toLowerCase(definition) \o <<".">>,
              p_in_this_context \o inTemplate(word) \o p_refers_to
                \o toLowerCase(definition) \o <<".">> >>))

\* btoa(JSON.stringify(options)) of the options in use
optionsKey(options) ==
    IF options = <<>> THEN k_e30 ELSE k_easy64

generateCacheKey(word, definition, options) ==
    toLowerCase(word) \o <<"_">> \o slice(definition, 0, 50) \o <<"_">>
      \o optionsKey(options)

\* mutant: one request more than the limit passes
calculateWaitTime_OneMore(reqs, t) ==
    [requests |-> SelectSeq(reqs, LAMBDA timestamp : timestamp > t - oneMinute),
     waitTime |->
        IF Len(SelectSeq(reqs, LAMBDA timestamp : timestamp > t - oneMinute))
             > requestsPerMinute
        THEN (SetMin(Range(SelectSeq(reqs,
                  LAMBDA timestamp : timestamp > t - oneMinute))) + oneMinute) - t
        ELSE 0]

\* the requests of the last minute, and the time to wait if they are too many
calculateWaitTime(reqs, t) ==
    [requests |-> SelectSeq(reqs, LAMBDA timestamp : timestamp > t - oneMinute),
     waitTime |->
        IF Len(SelectSeq(reqs, LAMBDA timestamp : timestamp > t - oneMinute))
             >= requestsPerMinute
        THEN (SetMin(Range(SelectSeq(reqs,
                  LAMBDA timestamp : timestamp > t - oneMinute))) + oneMinute) - t
        ELSE 0]

cacheKeys(entries) == {entries[i].key : i \in DOMAIN entries}

cacheDelete(entries, cacheKey) ==
    SelectSeq(entries, LAMBDA e : e.key # cacheKey)

\* Map.set: a key that is there keeps its place, a new one goes last
cacheSet(entries, cacheKey, value) ==
    IF cacheKey \in cacheKeys(entries)
    THEN [i \in DOMAIN entries |->
            IF entries[i].key = cacheKey
            THEN [key |-> cacheKey, data |-> value.data,
                  timestamp |-> value.timestamp]
            ELSE entries[i]]
    ELSE Append(entries, [key |-> cacheKey, data |-> value.data,
                          timestamp |-> value.timestamp])

cacheGet(entries, cacheKey) ==
    entries[CHOOSE i \in DOMAIN entries : entries[i].key = cacheKey]

\* the data of the key if it is cached and not expired; an expired entry
\* is deleted
getCachedExample(entries, cacheKey, t) ==
    IF cacheKey \notin cacheKeys(entries)
    THEN [cache |-> entries, data |-> JNull]
    ELSE IF (t - cacheGet(entries, cacheKey).timestamp) > cacheExpiry
    THEN [cache |-> cacheDelete(entries, cacheKey), data |-> JNull]
    ELSE [cache |-> entries, data |-> cacheGet(entries, cacheKey).data]

\* mutant: a full cache takes the entry without giving one up
setCachedExample_NoEviction(entries, cacheKey, data, t) ==
    cacheSet(entries, cacheKey, [data |-> data, timestamp |-> t])

\* a full cache gives up its first key, then the entry is set
setCachedExample(entries, cacheKey, data, t) ==
    cacheSet(IF Len(entries) >= cacheMaxSize THEN Tail(entries) ELSE entries,
             cacheKey, [data |-> data, timestamp |-> t])

\* the hourly cleanup: expired entries go
cleanupCache(entries, t) ==
    SelectSeq(entries, LAMBDA e : ~((t - e.timestamp) > cacheExpiry))

\* /^\d+\./
isNumberedLine(line) ==
    /\ skipWhile(line, 1, DigitChars) > 1
    /\ skipWhile(line, 1, DigitChars) <= Len(line)
    /\ line[skipWhile(line, 1, DigitChars)] = "."

\* line.replace(/^\d+\.\s*/, '').trim()
withoutNumber(line) ==
    trim(SubSeq(line, skipWhile(line, 1, DigitChars) + 1, Len(line)))

RECURSIVE splitAny(_, _)
splitAny(s, class) ==
    IF {i \in DOMAIN s : s[i] \in class} = {} THEN <<s>>
    ELSE <<SubSeq(s, 1, SetMin({i \in DOMAIN s : s[i] \in class}) - 1)>>
           \o splitAny(SubSeq(s, SetMin({i \in DOMAIN s : s[i] \in class}) + 1,
                              Len(s)), class)

trimAll(parts) == [i \in DOMAIN parts |-> trim(parts[i])]

numberedSentences(text) ==
    SelectSeq(
        [i \in DOMAIN SelectSeq(trimAll(split(text, "\n")), isNumberedLine) |->
            withoutNumber(SelectSeq(trimAll(split(text, "\n")), isNumberedLine)[i])],
        LAMBDA sentence : Len(sentence) > 0)

fallbackSentences(text) ==
    slice(SelectSeq(trimAll(splitAny(text, {".", "!", "?"})),
                    LAMBDA s : Len(s) > 10), 0, 3)

\* the sentences of the response, or null; a response without choices
\* throws inside, which is caught
parseResponse(response) ==
    IF response.kind # "ok" THEN JNull
    ELSE IF numberedSentences(response.content) # <<>>
    THEN Arr(numberedSentences(response.content))
    ELSE IF fallbackSentences(response.content) # <<>>
    THEN Arr(fallbackSentences(response.content))
    ELSE JNull

\* what an async function's promise settles to
Resolved(value) == [rejected |-> FALSE, value |-> value]
Rejected(message) == [rejected |-> TRUE, message |-> message]

\* the catch block of generateExampleSentences
caught(word, definition, message, fallback) ==
    IF fallback.threw THEN Rejected(fallback.message)
    ELSE Resolved([success |-> FALSE, examples |-> fallback.value,
                   source |-> "fallback", error |-> message,
                   cached |-> FALSE])

---------------------------------------------------------------------------
(* AiSpec: the operations of openaiService, the awaited API requests of    *)
(* several calls in flight at once                                         *)

MaxTicks == 2
MaxPending == 2

w_ox == <<"O","x">>
w_ant == <<"a","n","t">>
d_x == <<"A","n"," ","x">>
o_easy == <<"easy">>
k_sk == <<"s","k","-","1">>

c_list == <<"1","."," ","A","n"," ","o","x"," ","i","s"," ","a","n"," ","a","n","i","m","a","l","\n","2",".">>
c_prose == <<"A","n"," ","o","x"," ","i","s"," ","a","n"," ","a","n","i","m","a","l","."," ","O","k">>
c_none == <<"n","o">>

\* the arguments of a call: word, definition, options
Arguments ==
    { <<w_ox, d_x, <<>>>>, <<w_ant, d_x, <<>>>>, <<w_ox, d_x, o_easy>>,
      <<w_ox, <<>>, <<>>>>, <<w_ox, Undefined, <<>>>>, <<w_ox, Null, <<>>>>,
      <<<<>>, d_x, <<>>>>, <<Undefined, d_x, <<>>>>,
      <<Undefined, Undefined, <<>>>> }

\* what the awaited fetch brings
Responses ==
    {[kind |-> "ok", content |-> c] : c \in {c_list, c_prose, c_none}}
    \cup {[kind |-> "nochoices"], [kind |-> "error", status |-> "500"]}

CachedData == {Arr(<<SubSeq(c_prose, 1, 18)>>)}

ceilSeconds(waitTime) == (waitTime + 999) \div 1000

rateLimitMessage(waitTime) ==
    "Rate limit exceeded. Please wait " \o ToString(ceilSeconds(waitTime))
      \o " seconds."

\* the outcome of the part of generateExampleSentences that runs before
\* its await, with the cache and the requests it leaves
begun(entries, reqs, request, hit, cacheKey, outcome) ==
    [cache |-> entries, requests |-> reqs, request |-> request, hit |-> hit,
     key |-> cacheKey, outcome |-> outcome]

afterRateLimit(entries, t, cacheKey, wait, word, definition) ==
    IF wait.waitTime > 0
    THEN begun(entries, wait.requests, FALSE, FALSE, cacheKey,
               caught(word, definition, rateLimitMessage(wait.waitTime),
                      generateFallbackExamples(word, definition)))
    ELSE begun(entries, Append(wait.requests, t), TRUE, FALSE, cacheKey,
               Resolved(JNull))

afterCache(reqs, t, cacheKey, got, word, definition) ==
    IF got.data.kind # "null"
    THEN begun(got.cache, reqs, FALSE, TRUE, cacheKey,
               Resolved([success |-> TRUE, examples |-> got.data,
                         source |-> "cache", cached |-> TRUE]))
    ELSE afterRateLimit(got.cache, t, cacheKey, calculateWaitTime(reqs, t),
                        word, definition)

withoutKey(word, definition, fallback) ==
    IF fallback.threw
    THEN caught(word, definition, fallback.message, fallback)
    ELSE Resolved([success |-> TRUE, examples |-> fallback.value,
                   source |-> "fallback", cached |-> FALSE])

generateBegin(entries, reqs, t, key, word, definition, options) ==
    IF isFalsy(word) \/ isFalsy(definition)
    THEN begun(entries, reqs, FALSE, FALSE, <<>>,
               caught(word, definition, "Word and definition are required",
                      generateFallbackExamples(word, definition)))
    ELSE IF ~isConfigured(key)
    THEN begun(entries, reqs, FALSE, FALSE, <<>>,
               withoutKey(word, definition,
                          generateFallbackExamples(word, definition)))
    ELSE afterCache(reqs, t, generateCacheKey(word, definition, options),
                    getCachedExample(entries,
                        generateCacheKey(word, definition, options), t),
                    word, definition)

\* the outcome of the part after the await
settled(word, definition, examples) ==
    IF examples.kind = "null" \/ Len(examples.elems) = 0
    THEN caught(word, definition, "Failed to generate valid examples",
                generateFallbackExamples(word, definition))
    ELSE Resolved([success |-> TRUE, examples |-> examples,
                   source |-> "openai", cached |-> FALSE])

afterRequest(word, definition, response) ==
    IF response.kind = "error"
    THEN caught(word, definition,
                "OpenAI API Error: " \o response.status \o " - Unknown error",
                generateFallbackExamples(word, definition))
    ELSE settled(word, definition, parseResponse(response))

\* the cached keys by their last use, after an operation that left the
\* entries and, if used, read or wrote the key
usedAfter(order, entries, usedKey, used) ==
    IF used /\ usedKey \in cacheKeys(entries)
    THEN Append(SelectSeq(order, LAMBDA k : k \in cacheKeys(entries)
                                            /\ k # usedKey), usedKey)
    ELSE SelectSeq(order, LAMBDA k : k \in cacheKeys(entries))

completed(op, arguments, outcome) == [op |-> op, outcome |-> outcome]

AiInit ==
    /\ now = 0
    /\ ticks = 0
    /\ apiKey \in {k_sk, k_placeholder, Undefined}
    /\ cache = <<>>
    /\ requests = <<>>
    /\ pending = <<>>
    /\ started = <<>>
    /\ useOrder = <<>>
    /\ aiOut = [op |-> "none"]
    /\ csvText = <<>>
    /\ csvOut = NotRun
    /\ csvLines = <<>>
    /\ PipeIdle
    /\ NormIdle
    /\ ConcIdle
    /\ AppIdle

\* time passes
Tick(d) ==
    /\ ticks < MaxTicks
    /\ ticks' = ticks + 1
    /\ now' = now + d
    /\ started' = SelectSeq(started, LAMBDA at : at >= (now + d) - oneMinute)
    /\ UNCHANGED <<apiKey, cache, requests, pending, useOrder, aiOut>>
    /\ UNCHANGED <<csvVars, normVars, pipeVars, concVars, appVars>>

Began(op, arguments, b) ==
    /\ cache' = b.cache
    /\ requests' = b.requests
    /\ useOrder' = usedAfter(useOrder, b.cache, b.key, b.hit)
    /\ IF b.request
       THEN /\ pending' = Append(pending, [key |-> b.key, arguments |-> arguments])
            /\ started' = Append(started, now)
            /\ UNCHANGED aiOut
       ELSE /\ aiOut' = completed(op, arguments, b.outcome)
            /\ UNCHANGED <<pending, started>>
    /\ UNCHANGED <<now, ticks, apiKey>>
    /\ UNCHANGED <<csvVars, normVars, pipeVars, concVars, appVars>>

\* generateExampleSentences up to its await, or to its return
GenerateExampleSentences(a) ==
    /\ Len(pending) < MaxPending
    /\ Began("generateExampleSentences", a,
             generateBegin(cache, requests, now, apiKey, a[1], a[2], a[3]))

\* regenerateExampleSentences: the key is made outside the try block, the
\* entry deleted, and generateExampleSentences called
RegenerateExampleSentences(a) ==
    /\ Len(pending) < MaxPending
    /\ IF a[1] \in {Undefined, Null} \/ a[2] \in {Undefined, Null}
       THEN /\ aiOut' = completed("regenerateExampleSentences", a,
                 Rejected("Cannot read properties of undefined"))
            /\ UNCHANGED <<now, ticks, apiKey, cache, requests, pending,
                           started, useOrder>>
            /\ UNCHANGED <<csvVars, normVars, pipeVars, concVars, appVars>>
       ELSE Began("regenerateExampleSentences", a,
                  generateBegin(cacheDelete(cache,
                                    generateCacheKey(a[1], a[2], a[3])),
                                requests, now, apiKey, a[1], a[2], a[3]))

Settled(call, outcome) ==
    /\ cache' = IF outcome.rejected \/ ~outcome.value.success THEN cache
                ELSE setCachedExample(cache, call.key,
                                      outcome.value.examples, now)
    /\ useOrder' =
         IF outcome.rejected \/ ~outcome.value.success THEN useOrder
         ELSE usedAfter(useOrder,
                        setCachedExample(cache, call.key,
                                         outcome.value.examples, now),
                        call.key, TRUE)
    /\ aiOut' = completed("generateExampleSentences", call.arguments, outcome)

\* the awaited request of a call in flight settles, and the call goes on to
\* its return
RequestSettles(i, response) ==
    /\ i \in DOMAIN pending
    /\ pending' = SubSeq(pending, 1, i - 1) \o SubSeq(pending, i + 1, Len(pending))
    /\ Settled(pending[i],
               afterRequest(pending[i].arguments[1], pending[i].arguments[2],
                            response))
    /\ UNCHANGED <<now, ticks, apiKey, requests, started>>
    /\ UNCHANGED <<csvVars, normVars, pipeVars, concVars, appVars>>

GetCachedExample(cacheKey) ==
    /\ cache' = getCachedExample(cache, cacheKey, now).cache
    /\ useOrder' = usedAfter(useOrder, getCachedExample(cache, cacheKey, now).cache,
                             cacheKey,
                             getCachedExample(cache, cacheKey, now).data.kind
                               # "null")
    /\ aiOut' = completed("getCachedExample", <<cacheKey>>,
                          Resolved(getCachedExample(cache, cacheKey, now).data))
    /\ UNCHANGED <<now, ticks, apiKey, requests, pending, started>>
    /\ UNCHANGED <<csvVars, normVars, pipeVars, concVars, appVars>>

SetCachedExample(cacheKey, data) ==
    /\ cache' = setCachedExample(cache, cacheKey, data, now)
    /\ useOrder' = usedAfter(useOrder, setCachedExample(cache, cacheKey, data, now),
                             cacheKey, TRUE)
    /\ aiOut' = completed("setCachedExample", <<cacheKey>>, Resolved(Undefined))
    /\ UNCHANGED <<now, ticks, apiKey, requests, pending, started>>
    /\ UNCHANGED <<csvVars, normVars, pipeVars, concVars, appVars>>

\* the callback of setInterval
CacheCleanup ==
    /\ cache' = cleanupCache(cache, now)
    /\ useOrder' = usedAfter(useOrder, cleanupCache(cache, now), <<>>, FALSE)
    /\ aiOut' = completed("cleanup", <<>>, Resolved(Undefined))
    /\ UNCHANGED <<now, ticks, apiKey, requests, pending, started>>
    /\ UNCHANGED <<csvVars, normVars, pipeVars, concVars, appVars>>

ClearCache ==
    /\ cache' = <<>>
    /\ useOrder' = <<>>
    /\ aiOut' = completed("clearCache", <<>>,
                          Resolved([message |-> "Cache cleared successfully"]))
    /\ UNCHANGED <<now, ticks, apiKey, requests, pending, started>>
    /\ UNCHANGED <<csvVars, normVars, pipeVars, concVars, appVars>>

\* the calls whose arguments pass the validation, and their cache keys
ValidArguments == {a \in Arguments : ~isFalsy(a[1]) /\ ~isFalsy(a[2])}

ArgumentKeys == {generateCacheKey(a[1], a[2], a[3]) : a \in ValidArguments}

\* half a rate-limit window, and the time after which an entry has expired
RateSteps == {oneMinute \div 2}
CacheSteps == {cacheExpiry + 1}

CacheResponses ==
    {[kind |-> "ok", content |-> c_list], [kind |-> "error", status |-> "500"]}

\* RateSpec: calls of generateExampleSentences in flight at once, every
\* argument and every response
RateNext ==
    \/ \E d \in RateSteps : Tick(d)
    \/ \E a \in Arguments : GenerateExampleSentences(a)
    \/ \E i \in 1..MaxPending, response \in Responses : RequestSettles(i, response)

RateSpec == AiInit /\ [][RateNext]_vars

\* AiSpec: every operation on the cache, valid arguments
AiNext ==
    \/ \E d \in CacheSteps : Tick(d)
    \/ \E a \in ValidArguments : GenerateExampleSentences(a)
    \/ \E a \in ValidArguments : RegenerateExampleSentences(a)
    \/ \E i \in 1..MaxPending, response \in CacheResponses : RequestSettles(i, response)
    \/ \E k \in ArgumentKeys : GetCachedExample(k)
    \/ \E k \in ArgumentKeys, data \in CachedData : SetCachedExample(k, data)
    \/ CacheCleanup
    \/ ClearCache

AiSpec == AiInit /\ [][AiNext]_vars

---------------------------------------------------------------------------
(* Claims about the example service, checked under RateSpec and AiSpec     *)

\* the last completed call was a call of generateExampleSentences
generated == aiOut.op = "generateExampleSentences"

\* the result of a failed call: the fallback examples
isFallbackResult(res) ==
    /\ ~res.success
    /\ res.source = "fallback"
    /\ res.examples.kind = "array"
    /\ Len(res.examples.elems) > 0

\* C24: generateExampleSentences returns fallback examples on any error:
\* for every input and every failure the returned promise resolves, never
\* rejects, and the result of a failure has success false, source
\* 'fallback' and a non-empty list of examples.
C24_FallbackOnAnyError ==
    generated =>
        /\ ~aiOut.outcome.rejected
        /\ ~aiOut.outcome.value.success => isFallbackResult(aiOut.outcome.value)

\* what the code does: the promise rejects only with the TypeError of
\* generateFallbackExamples, raised inside the catch block
C24_RejectsOnlyInCatch ==
    (generated /\ aiOut.outcome.rejected) =>
        aiOut.outcome.message = generateFallbackExamples(w_ox, Undefined).message

C24_Rejected == generated /\ aiOut.outcome.rejected

\* the API requests started in the 60 seconds that begin at a time
startedFrom(at) ==
    SelectSeq(started, LAMBDA s : s >= at /\ s < at + oneMinute)

\* the API requests started in the last 60 seconds
lastMinute == SelectSeq(started, LAMBDA s : s > now - oneMinute)

limitReached == Len(lastMinute) >= requestsPerMinute

\* a call with these arguments gets as far as the rate limit
reachesRateLimit(a) ==
    /\ a \in ValidArguments
    /\ isConfigured(apiKey)
    /\ \A i \in DOMAIN cache :
          cache[i].key = generateCacheKey(a[1], a[2], a[3])
             => (now - cache[i].timestamp) > cacheExpiry

rateLimitResult(a) ==
    Resolved([success |-> FALSE,
              examples |-> generateFallbackExamples(a[1], a[2]).value,
              source |-> "fallback",
              error |-> rateLimitMessage((lastMinute[1] + oneMinute) - now),
              cached |-> FALSE])

C27_Window ==
    \A i \in DOMAIN started :
        Len(startedFrom(started[i])) <= requestsPerMinute

C27_Refused ==
    \A a \in Arguments :
        (limitReached /\ reachesRateLimit(a)) =>
            /\ ~generateBegin(cache, requests, now, apiKey, a[1], a[2], a[3]).request
            /\ generateBegin(cache, requests, now, apiKey, a[1], a[2], a[3]).outcome
                 = rateLimitResult(a)

C27_NoStart == limitReached => Len(started') <= Len(started)

\* C27: for any interleaving of concurrent generateExampleSentences calls,
\* at most requestsPerMinute API requests are started within any 60 seconds
\* (from a time up to, not including, 60 seconds later); a call arriving
\* when requestsPerMinute requests were started in the last 60 seconds
\* starts no API request and yields a rate-limit error result.
C27_RateLimit ==
    /\ [](C27_Window /\ C27_Refused)
    /\ [][C27_NoStart]_vars

\* both calls in flight fill the limit, and a third call was refused
C27_Witness ==
    /\ Len(pending) = requestsPerMinute
    /\ limitReached
    /\ generated
    /\ aiOut.outcome = rateLimitResult(<<w_ox, d_x, <<>>>>)

\* a request started exactly 60 seconds after a full minute's requests
C27_WitnessNextMinute ==
    /\ Len(started) > requestsPerMinute
    /\ now = oneMinute
    /\ started[Len(started)] = now

\* C26: after any sequence of generateExampleSentences,
\* regenerateExampleSentences, setCachedExample, getCachedExample, cleanup
\* and clearCache operations the cache holds at most cacheMaxSize entries.
C26_CacheBounded == Len(cache) <= cacheMaxSize

\* the cache is full, and its last entry is the one a call has generated
\* after an entry made earlier has expired
C26_Witness ==
    /\ Len(cache) = cacheMaxSize
    /\ generated
    /\ ~aiOut.outcome.rejected
    /\ aiOut.outcome.value.source = "openai"
    /\ cache[Len(cache)].key = generateCacheKey(w_ant, d_x, <<>>)
    /\ cache[Len(cache)].data = aiOut.outcome.value.examples
    /\ cache[Len(cache)].timestamp > cacheExpiry
    /\ cache[1].timestamp = 0

\* a step in which setCachedExample puts a new key into a full cache
evicts ==
    /\ Len(cache) >= cacheMaxSize
    /\ cacheKeys(cache') \ cacheKeys(cache) # {}

evictedKeys == cacheKeys(cache) \ cacheKeys(cache')

C25_Step == evicts => evictedKeys = {useOrder[1]}

\* C25: the cache has LRU behaviour: when setCachedExample is called on a
\* full cache the entry evicted is the least recently used one, so an entry
\* read through getCachedExample more recently than another entry is not
\* evicted before that other entry.
C25_LeastRecentlyUsedEvicted == [][C25_Step]_vars

C25_FirstStep == evicts => evictedKeys = {cache[1].key}

\* what the code does: the entry evicted is the one whose key was inserted
\* first, whatever has been read since
C25_FirstInsertedEvicted == [][C25_FirstStep]_vars

---------------------------------------------------------------------------
(* Claims about validateAndNormalizeData, checked under Spec               *)

validatedRan == "validateAndNormalizeData" \in Range(calls)

\* the 1-based rows of the parsed data that normalizeRecord rejects
failedRows ==
    {i \in DOMAIN parsedData : normalizeRecord(parsedData[i], i - 1).threw}

\* the number of rejects rows, of a set of them, up to a row
failedUpTo(rejects, i) == Cardinality({j \in rejects : j <= i})

rowLabel(i) == "Row " \o ToString(i) \o ": "

\* C28: every input record of validateAndNormalizeData ends in exactly one
\* of the normalized list and the error list, so the two lengths add up to
\* the number of input records, and the error of the record at 0-based
\* index i is labelled Row i+1.
C28_RowAccounting ==
    validatedRan =>
        LET outcomes == [i \in DOMAIN parsedData |->
                            normalizeRecord(parsedData[i], i - 1)]
            rejects == {i \in DOMAIN parsedData : outcomes[i].threw}
        IN  /\ Len(normalizedData) + Len(errors) = Len(parsedData)
            /\ Len(errors) = Cardinality(rejects)
            /\ \A i \in rejects :
                  errors[failedUpTo(rejects, i)] =
                      rowLabel(i) \o outcomes[i].message
            /\ \A i \in DOMAIN parsedData \ rejects :
                  normalizedData[i - failedUpTo(rejects, i)] = outcomes[i].value

\* a batch whose second record failed, between two that were accepted
C28_Witness ==
    /\ validatedRan
    /\ Len(parsedData) >= 3
    /\ failedRows = {2}
    /\ Len(normalizedData) = Len(parsedData) - 1
    /\ pc = "Succeeded"

\* a batch all of whose records failed: the call throws, the rows are
\* accounted for all the same
C28_WitnessAllFailed ==
    /\ validatedRan
    /\ Len(parsedData) >= 2
    /\ Len(errors) = Len(parsedData)
    /\ pc = "Failed"

---------------------------------------------------------------------------
(* AppSpec: the reducer of the application state, the actions that mark a  *)
(* word known or unknown                                                   *)

MaxDispatched == 4

\* the words a mark is dispatched with
Payloads == {"eloquent", "gregarious", "ubiquitous", "zeal"}

\* array.filter(word => word !== payload)
without(words, payload) == SelectSeq(words, LAMBDA word : word # payload)

\* mutant: the word stays in unknownWords
markWordKnown_KeepsUnknown(state, payload) ==
    [vocabulary |->
        [knownWords |-> Append(state.vocabulary.knownWords, payload),
         unknownWords |-> state.vocabulary.unknownWords],
     learning |->
        [totalWordsLearned |-> state.learning.totalWordsLearned + 1,
         todayProgress |-> state.learning.todayProgress + 1]]

\* case MARK_WORD_KNOWN
markWordKnown(state, payload) ==
    [vocabulary |->
        [knownWords |-> Append(state.vocabulary.knownWords, payload),
         unknownWords |-> without(state.vocabulary.unknownWords, payload)],
     learning |->
        [totalWordsLearned |-> state.learning.totalWordsLearned + 1,
         todayProgress |-> state.learning.todayProgress + 1]]

\* case MARK_WORD_UNKNOWN
markWordUnknown(state, payload) ==
    [vocabulary |->
        [unknownWords |-> Append(state.vocabulary.unknownWords, payload),
         knownWords |-> without(state.vocabulary.knownWords, payload)],
     learning |-> state.learning]

appReducer(state, action) ==
    IF action.type = "MARK_WORD_KNOWN"
    THEN markWordKnown(state, action.payload)
    ELSE IF action.type = "MARK_WORD_UNKNOWN"
    THEN markWordUnknown(state, action.payload)
    ELSE state

AppInit ==
    /\ AppIdle
    /\ csvText = <<>>
    /\ csvOut = NotRun
    /\ csvLines = <<>>
    /\ PipeIdle
    /\ NormIdle
    /\ ConcIdle
    /\ AiIdle

Dispatch(action) ==
    /\ dispatched < MaxDispatched
    /\ dispatched' = dispatched + 1
    /\ appState' = appReducer(appState, action)
    /\ UNCHANGED <<csvVars, normVars, pipeVars, concVars, aiVars>>

MarkWordKnown(word) ==
    Dispatch([type |-> "MARK_WORD_KNOWN", payload |-> word])

MarkWordUnknown(word) ==
    Dispatch([type |-> "MARK_WORD_UNKNOWN", payload |-> word])

AppNext ==
    \/ \E word \in Payloads : MarkWordKnown(word)
    \/ \E word \in Payloads : MarkWordUnknown(word)

AppSpec == AppInit /\ [][AppNext]_vars

\* C29: after any sequence of MARK_WORD_KNOWN and MARK_WORD_UNKNOWN actions
\* from the initial state no word is in both knownWords and unknownWords:
\* marking a word known removes it from unknownWords, marking it unknown
\* removes it from knownWords.
C29_KnownUnknownDisjoint ==
    /\ [](Range(appState.vocabulary.knownWords)
            \cap Range(appState.vocabulary.unknownWords) = {})
    /\ [][\A word \in Payloads :
            /\ (Len(appState'.vocabulary.knownWords)
                  > Len(appState.vocabulary.knownWords)
                /\ word = appState'.vocabulary.knownWords[
                              Len(appState'.vocabulary.knownWords)])
               => word \notin Range(appState'.vocabulary.unknownWords)
            /\ (Len(appState'.vocabulary.unknownWords)
                  > Len(appState.vocabulary.unknownWords)
                /\ word = appState'.vocabulary.unknownWords[
                              Len(appState'.vocabulary.unknownWords)])
               => word \notin Range(appState'.vocabulary.knownWords)]_vars

\* 'ubiquitous' was marked known and 'eloquent' unknown
C29_Witness ==
    /\ dispatched >= 2
    /\ "ubiquitous" \in Range(appState.vocabulary.knownWords)
    /\ "eloquent" \in Range(appState.vocabulary.unknownWords)
    /\ "ubiquitous" \notin Range(appState.vocabulary.unknownWords)
    /\ "eloquent" \notin Range(appState.vocabulary.knownWords)

---------------------------------------------------------------------------
(* Claims about the import of a parsed upload, checked under ImportSpec    *)

RECURSIVE concat(_)
concat(batches) ==
    IF batches = <<>> THEN <<>> ELSE batches[1] \o concat(Tail(batches))

\* the items handed to addVocabulariesBatch, over all batches
importedItems == concat(importRun.batches)

hasImported == importRun.status = "imported"

\* C30: for every successfully parsed upload, PDF as well as CSV or JSON,
\* the number of items handleImportToDatabase writes through
\* addVocabulariesBatch equals the totalWords of the import preview: every
\* parsed item is imported, in batches of at most batchSize, none dropped.
C30_EveryParsedItemImported ==
    hasImported =>
        /\ Len(importedItems) = parseResults.totalWords
        /\ importedItems = IF isPdfUpload THEN result.vocabularyList
                           ELSE result.data
        /\ \A i \in DOMAIN importRun.batches :
              Len(importRun.batches[i]) <= batchSize

\* what the code does: the items imported are the preview's parsedData,
\* which for a PDF are the five sample words at most
C30_ParsedDataImported ==
    hasImported =>
        /\ importedItems = parseResults.parsedData
        /\ \A i \in DOMAIN importRun.batches :
              /\ Len(importRun.batches[i]) <= batchSize
              /\ Len(importRun.batches[i]) > 0
        /\ ~isPdfUpload =>
              /\ Len(importedItems) = parseResults.totalWords
              /\ importedItems = result.data
        /\ isPdfUpload =>
              /\ importedItems = slice(result.vocabularyList, 0, 5)
              /\ Len(importedItems) =
                   IF parseResults.totalWords < 5 THEN parseResults.totalWords
                   ELSE 5

\* a PDF of six items, of which five were imported in three batches
C30_PdfItemDropped ==
    /\ hasImported
    /\ isPdfUpload
    /\ parseResults.totalWords = 6
    /\ Len(importedItems) = 5
    /\ Len(importRun.batches) = 3

\* a CSV or JSON upload imported whole, in more than one batch
C30_FileImportedWhole ==
    /\ hasImported
    /\ ~isPdfUpload
    /\ Len(importRun.batches) > 1
    /\ Len(importedItems) = parseResults.totalWords

===========================================================================
